---- MODULE Spec2Model ----
(***************************************************************************)
(* A model of the repository-to-document indexing pipeline of rag-indexer: *)
(*   - the Document Store Client (pkg/elasticsearch): doRequestWithRetry,  *)
(*     IndexDocument, Search, EnsureIndex, indexExists;                    *)
(*   - the Indexing Orchestrator (pkg/indexer): IndexAllRepos under its    *)
(*     mutex, the periodic loop and the on-demand reindex goroutines.      *)
(* Durations are in milliseconds.  A status of 0 stands for "no response"  *)
(* (client.Do returned a transport error and a nil *http.Response).        *)
(***************************************************************************)
EXTENDS Integers, Sequences, FiniteSets, TLC

\* ------------------------------------------------------------------------
\* Program constants
\* ------------------------------------------------------------------------
maxRetries == 3
retryBackoff == 500
retryMultiplier == 2
StatusOK == 200
StatusCreated == 201
StatusMultipleChoices == 300
StatusBadRequest == 400
StatusNotFound == 404
StatusInternalServerError == 500
StatusServiceUnavailable == 503
NoResponse == 0

\* ------------------------------------------------------------------------
\* Bounds of the model
\* ------------------------------------------------------------------------
\* number of Document Store Client calls followed in one behaviour
MaxCalls == 2
\* number of on-demand reindex goroutines that can be alive at once
MaxReindex == 2
\* length of the longest config.GitRepos
MaxRepos == 2
\* number of documents that match a search query, and their highest relevance score
MaxDocs == 3
MaxScore == 2
\* fields of a result list, names of a field, elements of an import list
MaxFields == 2
MaxNames == 2
MaxImports == 2
\* INDEX_INTERVAL: the numbers in the duration strings
MaxInterval == 2

VARIABLES
    op,            \* the client call in progress or just returned: "none", "ensure", "index", "search"
    cpc,           \* its position: "idle", "exists", "attempt", "backoff", "retdone", "returned"
    req,           \* the request inside doRequestWithRetry: "none", "PUT", "POSTdoc", "POSTsearch"
    attempt,       \* doRequestWithRetry: loop variable
    backoff,       \* doRequestWithRetry: next sleep
    resp,          \* doRequestWithRetry: status of resp (NoResponse when resp is nil)
    err,           \* doRequestWithRetry: err
    answers,       \* statuses answered to the attempts of req, in order
    sleeps,        \* the backoff sleeps completed before the retries of req, in order
    bodyRead,      \* req.Body, the reader made once by NewRequestWithContext, is at its end
    payload,       \* the body the attempt made in the last step had to send: "full" or
                   \* "empty"; "none" after any other step
    ctxDone,       \* the call's context is cancelled
    headAns,       \* status answered to indexExists' HEAD in this call (-1: not sent)
    sent,          \* number of client.Do invocations per request kind in this call
    storeMapping,  \* the store: mapping of the index, "none" when the index is absent
    storeCreates,  \* the store: number of index creations it has accepted
    storeDocs,     \* the store: number of documents in the index, each under its own _id
    docsBefore,    \* storeDocs when the call in progress began
    esRequests,    \* increments of metrics.ESRequests by the call in progress, by <<operation, status>>
    callErr,       \* the error the call returned
    calls          \* the calls completed before this one, oldest first: <<op, returned nil>>

storeVars == <<op, cpc, req, attempt, backoff, resp, err, answers, sleeps, bodyRead,
               payload, ctxDone,
               headAns, sent, callErr, storeMapping, storeCreates, storeDocs,
               docsBefore, esRequests, calls>>

VARIABLES
    mode,          \* the -mode flag: "serve" or "index"
    root,          \* the trees under config.ReposPath, as os.ReadDir lists them
    gitConfigured, \* config: GitOrg != "" && len(GitRepos) > 0
    pc,            \* position of each goroutine
    mu,            \* Indexer.mu: the goroutines that have locked it and not unlocked it
    entryIdx,      \* IndexAllRepos: index of the entry of the "for _, entry := range entries" loop
    walkPos,       \* filepath.Walk: index of the next node of the repository tree
    totalCount,    \* IndexAllRepos: totalCount
    walkerCount,   \* fileWalker.totalCount of the walk in progress
    persisted,     \* documents the store accepted from this call of IndexAllRepos
    reposIndexed,  \* the increments of metrics.ReposIndexed by this call of IndexAllRepos
    overlapped,    \* the goroutines whose call of IndexAllRepos overlapped another call
    appCtxDone,    \* main's context is cancelled (main.go: cancel() on SIGINT/SIGTERM)
    lastCall,      \* the call the last step completed, and what it returned
    lastRun        \* what the IndexAllRepos call that returned in the last step returned

idxVars == <<mode, root, gitConfigured, pc, mu, entryIdx, walkPos, totalCount,
             walkerCount, persisted, reposIndexed, overlapped, appCtxDone, lastCall,
             lastRun>>

\* ------------------------------------------------------------------------
\* State of one call of CloneRepos (visitor.go) and of its git commands (git.go)
\* ------------------------------------------------------------------------
VARIABLES
    gitOrg,        \* config.GitOrg
    gitRepos,      \* config.GitRepos
    haveGit,       \* the repositories with a .git directory under ReposPath
    reposDirMade,  \* os.MkdirAll(ReposPath) has been called and succeeded
    spc,           \* where CloneRepos is
    repoIdx,       \* the position of the range loop in GitRepos
    cmd,           \* the git command that runs: "clone", "fetch", "reset" or "none"
    cmdCancelled,  \* the caller's context was cancelled while cmd ran
    gitCtxDone,    \* the context given to CloneRepos is cancelled
    spawned,       \* number of git processes started
    attempts,      \* what cloneOrUpdateRepo returned, one record per call
    budget,        \* seconds left to the deadline of the context of gitClone or gitFetch
    ran,           \* the commands the last gitClone or gitFetch has run, with their results
    syncErr        \* what CloneRepos returned

syncVars == <<gitOrg, gitRepos, haveGit, reposDirMade, spc, repoIdx, cmd, cmdCancelled,
              gitCtxDone, spawned, attempts, budget, ran, syncErr>>

\* ------------------------------------------------------------------------
\* State of one search: the query of Client.Search and the store's answer
\* ------------------------------------------------------------------------
VARIABLES
    matched,       \* the documents that match the query, with their relevance scores
    limit,         \* the limit argument of Search
    searchSent,    \* the "size" and "sort" of the query sent, or NoQuery
    results        \* what Search returned

searchVars == <<matched, limit, searchSent, results>>

VARIABLES
    parsed,        \* the declaration and the imports handed to extractFunctionDoc
    document,      \* a CodeDocument
    data,          \* IndexDocument: "data, err = json.Marshal(doc)"
    decoded        \* Search: the "_source" of a hit decoded into a CodeDocument

docVars == <<parsed, document, data, decoded>>

\* ------------------------------------------------------------------------
\* State of the start of the program: config.Load and the start of the periodic loop
\* ------------------------------------------------------------------------
VARIABLES
    intervalStr,   \* the environment's INDEX_INTERVAL
    indexInterval, \* config.IndexInterval, in milliseconds
    boot           \* where the start is: "off", "load", "fatal", "loaded", "ticking", "panic"

cfgVars == <<intervalStr, indexInterval, boot>>

vars == <<storeVars, idxVars, syncVars, searchVars, docVars, cfgVars>>

\* ------------------------------------------------------------------------
\* Errors
\* ------------------------------------------------------------------------
NilErr == [kind |-> "nil", code |-> 0]
\* the error client.Do returns (connection refused, reset, timeout, ...)
TransportErr == [kind |-> "transport", code |-> 0]
\* req.Context().Err()
CanceledErr == [kind |-> "canceled", code |-> 0]
\* fmt.Errorf("elasticsearch request failed after %d retries: status %d", ...)
RetriesExhaustedErr(status) == [kind |-> "exhausted", code |-> status]
\* fmt.Errorf("elasticsearch error: %s - %s", resp.Status, body)
StoreStatusErr(status) == [kind |-> "status", code |-> status]
\* fmt.Errorf("unexpected status code: %d", resp.StatusCode)
UnexpectedStatusErr(status) == [kind |-> "unexpected", code |-> status]

ReqKinds == {"HEAD", "PUT", "POSTdoc", "POSTsearch"}
Ops == {"ensure", "index", "search"}
NoneSent == [k \in ReqKinds |-> 0]
NotSent == 0 - 1

IsServerError(status) == status >= StatusInternalServerError
FaultStatuses == {NoResponse, StatusInternalServerError, StatusServiceUnavailable}

\* ------------------------------------------------------------------------
\* The store as the client sees it: the answers es.client.Do can yield for one
\* request.  An outcome is the status (NoResponse with a transport error) and
\* whether the store processed the request.
\* ------------------------------------------------------------------------
Outcome(status, processed) == [status |-> status, processed |-> processed]

FaultOutcomes == {Outcome(s, FALSE) : s \in FaultStatuses}

StoreOutcomes(kind, mapping) ==
    CASE kind = "HEAD" ->
           {Outcome(IF mapping = "none" THEN StatusNotFound ELSE StatusOK, FALSE)}
      [] kind = "PUT" ->
           IF mapping = "none"
           THEN {Outcome(StatusOK, TRUE), Outcome(NoResponse, TRUE)}
           ELSE {Outcome(StatusBadRequest, FALSE)}
      [] kind = "POSTdoc" ->
           {Outcome(StatusCreated, TRUE), Outcome(NoResponse, TRUE),
            Outcome(StatusBadRequest, FALSE)}
      [] OTHER ->
           {Outcome(StatusOK, FALSE), Outcome(StatusBadRequest, FALSE)}

\* es.client.Do(req): a request whose context is cancelled fails in the transport
DoOutcomes(kind, mapping, cancelled) ==
    IF cancelled THEN {Outcome(NoResponse, FALSE)}
    ELSE StoreOutcomes(kind, mapping) \cup FaultOutcomes

\* the fixed schema sent by EnsureIndex
indexMapping == "indexMapping"

StoreAfter(kind, o) ==
    IF kind = "PUT" /\ o.processed THEN indexMapping ELSE storeMapping

CreatesAfter(kind, o) ==
    IF kind = "PUT" /\ o.processed THEN storeCreates + 1 ELSE storeCreates

\* POST <index>/_doc: the store keeps the document under an _id of its own making
DocsAfter(kind, o) ==
    IF kind = "POSTdoc" /\ o.processed THEN storeDocs + 1 ELSE storeDocs

\* ------------------------------------------------------------------------
\* doRequestWithRetry (client.go)
\* ------------------------------------------------------------------------
\* err of "resp, err = es.client.Do(req)"
DoErr(status) == IF status = NoResponse THEN TransportErr ELSE NilErr

\* a loop that also retries client errors
ReturnsAtOnce_Only2xx(status, e) == e = NilErr /\ status < StatusBadRequest

\* "if resp.StatusCode < http.StatusInternalServerError { return resp, err }",
\* reached only when err == nil
ReturnsAtOnce(status, e) == e = NilErr /\ status < StatusInternalServerError

\* a loop that sleeps the base delay before every retry
NextBackoff_Constant(b) == b

\* "backoff *= retryMultiplier"
NextBackoff(b) == b * retryMultiplier

\* a loop that forgets the terminal error
AfterLoopErr_Keep(status, e) == e

\* after the loop: "if err == nil && resp != nil { err = fmt.Errorf(... resp.StatusCode) }"
AfterLoopErr(status, e) ==
    IF e = NilErr /\ status # NoResponse THEN RetriesExhaustedErr(status) ELSE e

\* the select before a retry: which of its two cases can be taken.  The timer of
\* time.After(backoff) is never ready when the select is entered (backoff > 0), and
\* a context that is done wakes the select at once.
SelectDone(done) == done
\* a plain time.Sleep(backoff): the timer case is taken whatever the context
SelectTimer_Sleep(done) == TRUE
SelectTimer(done) == ~done

\* a loop that allows one attempt more
LoopContinues_OneMore(a) == a <= maxRetries + 1

\* "for attempt := 0; attempt <= maxRetries; attempt++"
LoopContinues(a) == a <= maxRetries

\* the request the call sends through doRequestWithRetry
RetriedRequest(o) ==
    CASE o = "ensure" -> "PUT"
      [] o = "index" -> "POSTdoc"
      [] OTHER -> "POSTsearch"

\* entering doRequestWithRetry(req): "backoff := retryBackoff", "attempt := 0"
EnterRetry(kind) ==
    /\ req' = kind
    /\ attempt' = 0
    /\ backoff' = retryBackoff
    /\ resp' = NoResponse
    /\ err' = NilErr
    /\ answers' = <<>>
    /\ sleeps' = <<>>
    /\ bodyRead' = FALSE
    /\ payload' = "none"
    /\ cpc' = "attempt"

\* the connection the transport takes for a request: a new one, or an idle one of
\* its pool
Conns == {"fresh", "reused"}

\* a client that gives every attempt a new reader over the serialized body
Payload_NewReader(isRead, conn) == "full"

\* what the request of "es.client.Do(req)" has to send.  req is the one request
\* built before the loop, and its Body a reader over the serialized bytes: once an
\* attempt has read it, a later attempt finds it at its end.  The transport rewinds
\* it (req.GetBody) only when the write failed on a connection it had reused; on
\* a new connection the attempt ends in "ContentLength=N with Body length 0"
Payload(isRead, conn) ==
    IF isRead /\ conn = "fresh" THEN "empty" ELSE "full"

\* the outcomes of the attempt: with nothing to send the request fails in the
\* transport before anything is written
AttemptOutcomes(p, kind, mapping, cancelled) ==
    IF p = "empty" THEN {Outcome(NoResponse, FALSE)}
    ELSE DoOutcomes(kind, mapping, cancelled)

\* the body was read by the attempts that wrote the request: those the store
\* answered or processed
BodyReadAfter(isRead, o) == isRead \/ o.status # NoResponse \/ o.processed

\* one pass through the loop body from "resp, err = es.client.Do(req)" on
RetryAttempt ==
    /\ cpc = "attempt"
    /\ \E conn \in Conns :
       \E o \in AttemptOutcomes(Payload(bodyRead, conn), req, storeMapping, ctxDone) :
         /\ payload' = Payload(bodyRead, conn)
         /\ bodyRead' = BodyReadAfter(bodyRead, o)
         /\ resp' = o.status
         /\ answers' = Append(answers, o.status)
         /\ sent' = [sent EXCEPT ![req] = @ + 1]
         /\ storeMapping' = StoreAfter(req, o)
         /\ storeCreates' = CreatesAfter(req, o)
         /\ storeDocs' = DocsAfter(req, o)
         /\ IF ReturnsAtOnce(o.status, DoErr(o.status))
            THEN /\ err' = DoErr(o.status)
                 /\ attempt' = attempt
                 /\ cpc' = "retdone"
            ELSE /\ attempt' = attempt + 1
                 /\ IF LoopContinues(attempt + 1)
                    THEN /\ err' = DoErr(o.status)
                         /\ cpc' = "backoff"
                    ELSE /\ err' = AfterLoopErr(o.status, DoErr(o.status))
                         /\ cpc' = "retdone"
    /\ UNCHANGED <<op, req, backoff, sleeps, ctxDone, headAns, callErr, docsBefore,
                   esRequests, calls>>

\* "case <-time.After(backoff): backoff *= retryMultiplier"
RetryBackoffElapsed ==
    /\ cpc = "backoff"
    /\ SelectTimer(ctxDone)
    /\ sleeps' = Append(sleeps, backoff)
    /\ backoff' = NextBackoff(backoff)
    /\ cpc' = "attempt"
    /\ payload' = "none"
    /\ UNCHANGED <<op, req, attempt, resp, err, answers, ctxDone, headAns, sent,
                   callErr, storeMapping, storeCreates,
                   storeDocs, docsBefore, esRequests, bodyRead, calls>>

\* "case <-req.Context().Done(): err = req.Context().Err(); return resp, err"
RetryCancelled ==
    /\ cpc = "backoff"
    /\ SelectDone(ctxDone)
    /\ err' = CanceledErr
    /\ cpc' = "retdone"
    /\ payload' = "none"
    /\ UNCHANGED <<op, req, attempt, backoff, resp, answers, sleeps, ctxDone, headAns,
                   sent, callErr, storeMapping, storeCreates,
                   storeDocs, docsBefore, esRequests, bodyRead, calls>>

\* the caller cancels the context of the call in progress
CancelRequest ==
    /\ cpc \in {"exists", "attempt", "backoff"}
    /\ ~ctxDone
    /\ ctxDone' = TRUE
    /\ payload' = "none"
    /\ UNCHANGED <<op, cpc, req, attempt, backoff, resp, err, answers, sleeps, headAns,
                   sent, callErr, storeMapping, storeCreates,
                   storeDocs, docsBefore, esRequests, bodyRead, calls>>

\* ------------------------------------------------------------------------
\* The calls of the client
\* ------------------------------------------------------------------------
\* what IndexDocument, Search and EnsureIndex make of doRequestWithRetry's result:
\* "if err != nil { ... %w }", "if resp.StatusCode >= http.StatusMultipleChoices"
CallErr(status, e) ==
    IF e # NilErr THEN e
    ELSE IF status >= StatusMultipleChoices THEN StoreStatusErr(status)
    ELSE NilErr

\* the label values of ESRequests the client uses
RequestLabels == {"index", "search"} \X {"success", "error"}

NoRequests == [l \in RequestLabels |-> 0]

\* a call begins: the call before it, if any, joins the history, and the increments
\* of ESRequests are counted from this call on
BeginCall(o) ==
    /\ cpc \in {"idle", "returned"}
    /\ Len(calls) + (IF cpc = "returned" THEN 1 ELSE 0) < MaxCalls
    /\ calls' = IF cpc = "returned" THEN Append(calls, <<op, callErr = NilErr>>) ELSE calls
    /\ op' = o
    /\ ctxDone' = FALSE
    /\ headAns' = NotSent
    /\ sent' = NoneSent
    /\ callErr' = NilErr
    /\ docsBefore' = storeDocs
    /\ esRequests' = NoRequests
    /\ UNCHANGED <<storeMapping, storeCreates, storeDocs>>

\* the call returns e
ReturnCall(e) ==
    /\ callErr' = e
    /\ cpc' = "returned"

\* IndexDocument, Search: up to the call of doRequestWithRetry
StartRetried(o) ==
    /\ BeginCall(o)
    /\ EnterRetry(RetriedRequest(o))

IndexDocument == StartRetried("index")

Search == StartRetried("search")

\* EnsureIndex up to the call of indexExists
EnsureIndex ==
    /\ BeginCall("ensure")
    /\ cpc' = "exists"
    /\ req' = "none"
    /\ attempt' = 0
    /\ backoff' = 0
    /\ resp' = NoResponse
    /\ err' = NilErr
    /\ answers' = <<>>
    /\ sleeps' = <<>>
    /\ bodyRead' = FALSE
    /\ payload' = "none"

\* a check that takes every answer other than 200 for "does not exist"
indexExistsResult_AbsentUnless200(status) ==
    IF status = StatusOK THEN <<TRUE, NilErr>> ELSE <<FALSE, NilErr>>

\* indexExists: <<exists, err>> for the status of its one es.client.Do
indexExistsResult(status) ==
    IF status = NoResponse THEN <<FALSE, TransportErr>>
    ELSE IF status = StatusOK THEN <<TRUE, NilErr>>
    ELSE IF status = StatusNotFound THEN <<FALSE, NilErr>>
    ELSE <<FALSE, UnexpectedStatusErr(status)>>

\* an EnsureIndex that creates the index without looking at exists
NeedsCreate_Always(exists) == TRUE

\* EnsureIndex: "if exists { return err }", else the index is created
NeedsCreate(exists) == ~exists

\* indexExists and what EnsureIndex does with its result
indexExists ==
    /\ cpc = "exists"
    /\ \E o \in DoOutcomes("HEAD", storeMapping, ctxDone) :
         LET r == indexExistsResult(o.status) IN
         /\ sent' = [sent EXCEPT !["HEAD"] = @ + 1]
         /\ headAns' = o.status
         /\ IF r[2] # NilErr
            THEN /\ ReturnCall(r[2])
                 /\ UNCHANGED <<req, attempt, backoff, resp, err, answers, sleeps,
                                bodyRead, payload>>
            ELSE IF NeedsCreate(r[1])
            THEN /\ EnterRetry("PUT")
                 /\ UNCHANGED callErr
            ELSE /\ ReturnCall(NilErr)
                 /\ UNCHANGED <<req, attempt, backoff, resp, err, answers, sleeps,
                                bodyRead, payload>>
    /\ UNCHANGED <<op, ctxDone, storeMapping, storeCreates,
                   storeDocs, docsBefore, esRequests, bodyRead, payload, calls>>

\* "failed to decode response": json.NewDecoder(resp.Body).Decode(&searchResp)
DecodeErr == [kind |-> "decode", code |-> 0]

\* es.metrics.ESRequests.WithLabelValues(operation, status).Inc()
Inc(counter, operation, status) ==
    [counter EXCEPT ![<<operation, status>>] = @ + 1]

\* whether the body of the response decodes: only Search reads the body of a
\* response below 300, and what it reads may be cut short or not be the JSON of
\* a search response
DecodeOutcomes(o, e) ==
    IF o = "search" /\ e = NilErr THEN BOOLEAN ELSE {TRUE}

\* the error of the call after the status check: Search returns the decoder's error
ReturnedErr(e, decodes) == IF decodes THEN e ELSE DecodeErr

\* ESRequests after the call: IndexDocument and Search count "error" where they
\* return for err != nil or a status from 300 on, and "success" on the path to the
\* end, Search only after the body decoded; EnsureIndex counts nothing
ESRequestsAfter(counter, o, e, decodes) ==
    IF o \notin {"index", "search"} THEN counter
    ELSE IF e # NilErr THEN Inc(counter, o, "error")
    ELSE IF decodes THEN Inc(counter, o, "success")
    ELSE counter

\* the rest of IndexDocument, Search and EnsureIndex once doRequestWithRetry returned
FinishCall ==
    /\ cpc = "retdone"
    /\ \E decodes \in DecodeOutcomes(op, CallErr(resp, err)) :
         /\ ReturnCall(ReturnedErr(CallErr(resp, err), decodes))
         /\ esRequests' = ESRequestsAfter(esRequests, op, CallErr(resp, err), decodes)
    /\ payload' = "none"
    /\ UNCHANGED <<op, req, attempt, backoff, resp, err, answers, sleeps, ctxDone,
                   headAns, sent, storeMapping, storeCreates,
                   storeDocs, docsBefore, bodyRead, calls>>

StoreInit ==
    /\ op = "none"
    /\ cpc = "idle"
    /\ req = "none"
    /\ attempt = 0
    /\ backoff = 0
    /\ resp = NoResponse
    /\ err = NilErr
    /\ answers = <<>>
    /\ sleeps = <<>>
    /\ bodyRead = FALSE
    /\ payload = "none"
    /\ ctxDone = FALSE
    /\ headAns = NotSent
    /\ sent = NoneSent
    /\ callErr = NilErr
    /\ storeMapping \in {"none", indexMapping}
    /\ storeCreates = 0
    /\ storeDocs = 0
    /\ docsBefore = 0
    /\ esRequests = NoRequests
    /\ calls = <<>>

StoreNext ==
    \/ IndexDocument /\ UNCHANGED <<idxVars, syncVars, searchVars, docVars, cfgVars>>
    \/ Search /\ UNCHANGED <<idxVars, syncVars, searchVars, docVars, cfgVars>>
    \/ EnsureIndex /\ UNCHANGED <<idxVars, syncVars, searchVars, docVars, cfgVars>>
    \/ indexExists /\ UNCHANGED <<idxVars, syncVars, searchVars, docVars, cfgVars>>
    \/ RetryAttempt /\ UNCHANGED <<idxVars, syncVars, searchVars, docVars, cfgVars>>
    \/ RetryBackoffElapsed /\ UNCHANGED <<idxVars, syncVars, searchVars, docVars, cfgVars>>
    \/ RetryCancelled /\ UNCHANGED <<idxVars, syncVars, searchVars, docVars, cfgVars>>
    \/ CancelRequest /\ UNCHANGED <<idxVars, syncVars, searchVars, docVars, cfgVars>>
    \/ FinishCall /\ UNCHANGED <<idxVars, syncVars, searchVars, docVars, cfgVars>>

\* ------------------------------------------------------------------------
\* The local repository root (config.ReposPath) and the trees below it
\* ------------------------------------------------------------------------
\* a node of a tree as filepath.Walk meets it: name, depth below the walk's root,
\* directory or not, filepath.Ext, number of function declarations of a Go file
Node(name, depth, dir, ext, funcs) ==
    [name |-> name, depth |-> depth, dir |-> dir, ext |-> ext, funcs |-> funcs]

Dir(name, depth) == Node(name, depth, TRUE, "", 0)
GoFile(name, depth, funcs) == Node(name, depth, FALSE, ".go", funcs)
OtherFile(name, depth, ext) == Node(name, depth, FALSE, ext, 0)

\* the nodes of each tree in the order filepath.Walk visits them (lexical, pre-order)
TreeAlpha ==
    << Dir("alpha", 0),
       Dir(".git", 1), GoFile("hook.go", 2, 1),
       GoFile("a.go", 1, 2),
       Dir("sub", 1), GoFile("b.go", 2, 1),
                      Dir("vendor", 2), GoFile("w.go", 3, 1),
       Dir("vendor", 1), GoFile("v.go", 2, 1),
       OtherFile("z.txt", 1, ".txt") >>

TreeBeta == << Dir("beta", 0), Dir(".git", 1), GoFile("m.go", 1, 1) >>

TreeNotes == << Dir("notes", 0), GoFile("n.go", 1, 1) >>

TreeReadme == << OtherFile("README.md", 0, ".md") >>

TreeGamma ==
    << Dir("gamma", 0),
       Dir(".git", 1),
       GoFile("a.go", 1, 2),
       Dir("sub", 1), GoFile("b.go", 2, 1) >>

\* os.ReadDir(idx.config.ReposPath): the entries sorted by filename
\* the repository root of the one-shot index mode
IndexRoot == << TreeReadme, TreeAlpha, TreeBeta, TreeNotes >>
\* the repository root of the serve mode
ServeRoot == << TreeReadme, TreeGamma, TreeNotes >>

\* entry.IsDir()
EntryIsDir(tree) == tree[1].dir

\* a check that takes every directory for a repository
HasGit_AnyDirectory(tree) == TRUE

\* os.Stat(filepath.Join(repoPath, ".git")) does not answer "not exist"
HasGit(tree) == \E i \in DOMAIN tree : tree[i].depth = 1 /\ tree[i].name = ".git"

\* filepath.Walk after SkipDir on the directory at i: the first node outside its subtree
SubtreeEnd(tree, i) ==
    IF \E j \in (i + 1)..Len(tree) : tree[j].depth <= tree[i].depth
    THEN CHOOSE j \in (i + 1)..Len(tree) :
            /\ tree[j].depth <= tree[i].depth
            /\ \A k \in (i + 1)..(j - 1) : tree[k].depth > tree[i].depth
    ELSE Len(tree) + 1

\* config.ReposPath ("/repos" by default), as the sequence of its path elements
ReposPath == <<"repos">>

\* the path elements of node i below the walk's root: the names of its ancestors
\* (the last node before it at each smaller depth) and its own
RelPath(tree, i) ==
    [d \in 1..tree[i].depth |->
        LET js == {j \in 1..i : tree[j].depth = d}
        IN tree[CHOOSE j \in js : \A k \in js : k <= j].name]

\* filepath.Join(elem...)
Join(a, b) == a \o b

\* filepath.Base(path)
Base(path) == path[Len(path)]

\* IndexAllRepos: "repoPath := filepath.Join(idx.config.ReposPath, name)"
RepoPath(tree) == Join(ReposPath, <<tree[1].name>>)

\* filepath.Walk(repoPath, walker.walk): the path it hands to walk for node i
WalkPath(tree, i) == Join(RepoPath(tree), RelPath(tree, i))

\* ------------------------------------------------------------------------
\* indexFile, astVisitor.Visit and extractFunctionDoc (parser.go, visitor.go)
\* ------------------------------------------------------------------------
\* funcDecl.Type.Results: nil, or a list of fields, each with len(field.Names) names
NilResults == [nil |-> TRUE, list |-> <<>>]
FieldList(list) == [nil |-> FALSE, list |-> list]
Field(names) == [names |-> names]

\* hasNamedReturns: "for _, field := range funcDecl.Type.Results.List", from field i
RECURSIVE RangeFields(_, _)
RangeFields(list, i) ==
    IF i > Len(list) THEN FALSE
    ELSE IF list[i].names > 0 THEN TRUE
    ELSE RangeFields(list, i + 1)

\* a check that looks at the first result only
hasNamedReturns_FirstField(res) ==
    IF res.nil \/ res.list = <<>> THEN FALSE
    ELSE res.list[1].names > 0

\* hasNamedReturns(funcDecl), on the declaration's result list
hasNamedReturns(res) ==
    IF res.nil THEN FALSE ELSE RangeFields(res.list, 1)

\* the text a document carries as a Go string is a sequence of characters; the
\* phrase extractFunctionDoc looks for is one element of it
IfErrNotNil == "if err != nil"

\* strings.Contains(doc.Code, "if err != nil")
Contains(code, phrase) == \E i \in DOMAIN code : code[i] = phrase

\* time.Time: the instant, whether it carries a monotonic clock reading, its location
Time(instant, mono, loc) == [instant |-> instant, mono |-> mono, loc |-> loc]

\* []string: nil, or a slice of the given elements
NilSlice == [nil |-> TRUE, elems |-> <<>>]
Slice(elems) == [nil |-> FALSE, elems |-> elems]

\* the nodes of a parsed file that matter to Visit: function declarations (recv is
\* the receiver type, "" for a plain function; results its result list; src the text
\* from its Pos() to its End()), function literals, other declarations
FuncDecl(name, recv, res, src) ==
    [type |-> "FuncDecl", name |-> name, recv |-> recv, results |-> res,
     src |-> src]
FuncLit == [type |-> "FuncLit"]
GenDecl == [type |-> "GenDecl"]

\* ast.Inspect(node, visitor.Visit): the nodes of a file in the order Visit gets them
\* (depth first, declarations in source order), for the files of the trees by their
\* number of function declarations
Inspect(n) ==
    CASE n.funcs = 2 ->
           << GenDecl,
              FuncDecl(<<"R", "u", "n">>, "", FieldList(<<Field(0)>>),
                       <<"{", IfErrNotNil, "}">>),
              FuncLit,
              FuncDecl(<<"R", "u", "n">>, "T", NilResults, <<"{", "}">>) >>
      [] n.funcs = 1 ->
           << FuncDecl(<<"h">>, "", FieldList(<<Field(1)>>), <<"{", "}">>) >>
      [] OTHER -> << >>

\* indexFile: node.Name.Name and the imports of the files of the trees ("var imports
\* []string" stays nil in a file without imports), and time.Now() during the pass
TreePkgName == <<"p">>
TreeImports == NilSlice
PassNow == Time(1, TRUE, "Local")

\* Visit: "funcDecl, ok := n.(*ast.FuncDecl)"
IsFuncDecl(node) == node.type = "FuncDecl"

\* CodeDocument (models.go), fields named by their json tags
CodeDocument(repo, filePath, functionName, code, named, errh, pkg, imports, lint, at) ==
    [repo |-> repo, file_path |-> filePath, function_name |-> functionName,
     code |-> code, has_namedreturns |-> named, has_error_handling |-> errh,
     package |-> pkg, imports |-> imports, lint_compliant |-> lint,
     indexed_at |-> at]

\* extractFunctionDoc: now is "time.Now()"
extractFunctionDoc(funcDecl, repo, filePath, pkgName, imports, now) ==
    CodeDocument(repo, filePath, funcDecl.name, funcDecl.src,
                 hasNamedReturns(funcDecl.results),
                 Contains(funcDecl.src, IfErrNotNil),
                 pkgName, imports, FALSE, now)

\* a traversal that ends at the first IndexDocument that fails
Visited_UntilFailure(oks, k) == \A j \in 1..(k - 1) : oks[j]

\* Visit goes on to the declaration at position k of the file whatever
\* IndexDocument returned for the earlier ones
Visited(oks, k) == TRUE

\* the submissions of one indexFile call, in order: the document extracted from each
\* function declaration Visit meets and whether IndexDocument returned nil for it
\* (oks[k], for the k-th node)
Submissions(n, repo, filePath, oks) ==
    LET nodes == Inspect(n)
        Submitted(k) == IsFuncDecl(nodes[k]) /\ Visited(oks, k)
        ks == SelectSeq([k \in DOMAIN nodes |-> k], Submitted)
    IN [j \in DOMAIN ks |->
          [doc |-> extractFunctionDoc(nodes[ks[j]], repo, filePath, TreePkgName,
                                      TreeImports, PassNow),
           ok |-> oks[ks[j]]]]

\* Visit: "v.funcCount++" for every IndexDocument that returned nil
FuncCount(subs) == Cardinality({j \in DOMAIN subs : subs[j].ok})

\* what IndexDocument can return for the nodes of a file: under a cancelled
\* context every request fails
SubmitResults(n, cancelled) ==
    IF cancelled THEN {[k \in DOMAIN Inspect(n) |-> FALSE]}
    ELSE [DOMAIN Inspect(n) -> BOOLEAN]

\* ------------------------------------------------------------------------
\* fileWalker.walk (walker.go): what the callback does with one node
\* ------------------------------------------------------------------------
\* a walker that ignores the pruned directories themselves but descends into them
walk_NoSkipDir(n, pathErr) ==
    IF pathErr THEN "pathErr"
    ELSE IF n.ext # ".go" THEN "nil"
    ELSE "indexFile"

walk(n, pathErr) ==
    IF pathErr THEN "pathErr"
    ELSE IF n.dir /\ n.name \in {"vendor", ".git"} THEN "SkipDir"
    ELSE IF n.ext # ".go" THEN "nil"
    ELSE "indexFile"

\* ------------------------------------------------------------------------
\* The goroutines that call IndexAllRepos (visitor.go, the server's handleReindex
\* and the program's runServeMode)
\* ------------------------------------------------------------------------
\* the goroutine of main (runServeMode), the goroutine of RunIndexingLoop and the
\* goroutines started by handleReindex
Main == [kind |-> "main", id |-> 0]
Loop == [kind |-> "loop", id |-> 0]
Reindexers == {[kind |-> "reindex", id |-> i] : i \in 1..MaxReindex}
Procs == {Main, Loop} \cup Reindexers

\* between idx.mu.Lock() returning and the deferred idx.mu.Unlock()
InPass == {"readdir", "entries", "walk"}
\* inside IndexAllRepos
InCall == {"lock"} \cup InPass

NoRun ==
    [returned |-> FALSE, count |-> 0, err |-> NilErr, persisted |-> 0, repos |-> 0,
     overlapped |-> FALSE]

\* no call completed in the last step
NoCall == [fn |-> "none", res |-> "none", subs |-> <<>>]
\* fileWalker.walk returned in the last step: res is "pathErr", "SkipDir", "nil" (not
\* a Go file), "indexed" (indexFile returned a count) or "indexFailed"
WalkCall(res) == [fn |-> "walk", res |-> res, subs |-> <<>>]
\* walk returned after indexFile made the submissions subs
IndexedCall(subs) == [fn |-> "walk", res |-> "indexed", subs |-> subs]
\* CloneRepos returned in the last step
CloneCall(e) == [fn |-> "CloneRepos", res |-> e.kind, subs |-> <<>>]

\* the context a goroutine hands to IndexAllRepos is cancelled: main's context for
\* runServeMode, runIndexMode and RunIndexingLoop, context.Background() for
\* handleReindex
CtxDone(p) == p \in {Main, Loop} /\ appCtxDone

\* fmt.Errorf("failed to read repos directory: %w", err)
ReadDirErr == [kind |-> "readdir", code |-> 0]

\* no mutual exclusion: Lock never blocks
CanLock_Always(m) == TRUE

\* idx.mu.Lock() can return
CanLock(m) == m = {}

\* an Unlock at the end of the function instead of a deferred one: the early
\* return on the ReadDir error leaves the mutex locked
AfterReturn_NoDefer(m, p, e) == IF e = NilErr THEN m \ {p} ELSE m

\* "defer idx.mu.Unlock()": the mutex after the call of p returned e
AfterReturn(m, p, e) == m \ {p}

\* where the caller of IndexAllRepos goes on once it has logged the result
AfterCall(p) ==
    CASE p = Main -> IF mode = "serve" THEN "serving" ELSE "exit"
      [] p = Loop -> "select"
      [] OTHER -> "idle"

\* p calls IndexAllRepos while the calls of others are in progress, or not
Overlaps(p) ==
    LET others == {q \in Procs \ {p} : pc[q] \in InCall} IN
    IF others = {} THEN overlapped ELSE overlapped \cup {p} \cup others

\* IndexAllRepos returns (count, e) to the goroutine p, which logs it
Return(p, count, e) ==
    /\ mu' = AfterReturn(mu, p, e)
    /\ lastRun' = [returned |-> TRUE, count |-> count, err |-> e,
                   persisted |-> persisted[p], repos |-> reposIndexed[p],
                   overlapped |-> p \in overlapped]
    /\ persisted' = [persisted EXCEPT ![p] = 0]
    /\ reposIndexed' = [reposIndexed EXCEPT ![p] = 0]
    /\ overlapped' = overlapped \ {p}
    \* runServeMode: "go idx.RunIndexingLoop(ctx)" and the server once the initial
    \* index returned
    /\ pc' = IF p = Main /\ mode = "serve"
             THEN [pc EXCEPT ![p] = AfterCall(p), ![Loop] = "select"]
             ELSE [pc EXCEPT ![p] = AfterCall(p)]
    /\ entryIdx' = [entryIdx EXCEPT ![p] = 0]
    /\ walkPos' = [walkPos EXCEPT ![p] = 0]
    /\ totalCount' = [totalCount EXCEPT ![p] = 0]
    /\ walkerCount' = [walkerCount EXCEPT ![p] = 0]

\* runServeMode up to the initial IndexAllRepos
Startup ==
    /\ pc[Main] = "start"
    /\ pc' = [pc EXCEPT ![Main] = IF gitConfigured THEN "clone" ELSE "lock"]
    /\ overlapped' = IF gitConfigured THEN overlapped ELSE Overlaps(Main)
    /\ lastCall' = NoCall
    /\ lastRun' = NoRun
    /\ UNCHANGED <<mode, root, gitConfigured, mu, entryIdx, walkPos, totalCount,
                   walkerCount, persisted, reposIndexed, appCtxDone>>

\* RunIndexingLoop: "case <-ticker.C"
Tick ==
    /\ pc[Loop] = "select"
    /\ pc' = [pc EXCEPT ![Loop] = IF gitConfigured THEN "clone" ELSE "lock"]
    /\ overlapped' = IF gitConfigured THEN overlapped ELSE Overlaps(Loop)
    /\ lastCall' = NoCall
    /\ lastRun' = NoRun
    /\ UNCHANGED <<mode, root, gitConfigured, mu, entryIdx, walkPos, totalCount,
                   walkerCount, persisted, reposIndexed, appCtxDone>>

\* fmt.Errorf("failed to create repos directory: %w", err)
MkdirErr == [kind |-> "mkdir", code |-> 0]

\* what CloneRepos returns once organization and repositories are configured: the
\* failures of single repositories are logged, not returned
CloneResults == {NilErr, MkdirErr}

\* an error of CloneRepos ends the goroutine that called it
CloneRepos_FatalOnError(p) ==
    /\ pc[p] = "clone"
    /\ \E e \in CloneResults :
         /\ lastCall' = CloneCall(e)
         /\ pc' = [pc EXCEPT ![p] = IF e = NilErr THEN "lock" ELSE "stopped"]
         /\ overlapped' = IF e = NilErr THEN Overlaps(p) ELSE overlapped
    /\ lastRun' = NoRun
    /\ UNCHANGED <<mode, root, gitConfigured, mu, entryIdx, walkPos, totalCount,
                   walkerCount, persisted, reposIndexed, appCtxDone>>

\* CloneRepos returns (its error is logged); IndexAllRepos is called next
CloneRepos(p) ==
    /\ pc[p] = "clone"
    /\ pc' = [pc EXCEPT ![p] = "lock"]
    /\ overlapped' = Overlaps(p)
    /\ \E e \in CloneResults : lastCall' = CloneCall(e)
    /\ lastRun' = NoRun
    /\ UNCHANGED <<mode, root, gitConfigured, mu, entryIdx, walkPos, totalCount,
                   walkerCount, persisted, reposIndexed, appCtxDone>>

\* handleReindex: "go func() { count, indexErr := s.indexer.IndexAllRepos(...) }()"
handleReindex(p) ==
    /\ pc[Main] = "serving"
    /\ pc[p] = "idle"
    /\ pc' = [pc EXCEPT ![p] = "lock"]
    /\ overlapped' = Overlaps(p)
    /\ lastCall' = NoCall
    /\ lastRun' = NoRun
    /\ UNCHANGED <<mode, root, gitConfigured, mu, entryIdx, walkPos, totalCount,
                   walkerCount, persisted, reposIndexed, appCtxDone>>

\* a try-lock: a call that finds the mutex locked returns at once, without a pass
Lock_TryLock(p) ==
    /\ pc[p] = "lock"
    /\ IF mu = {}
       THEN /\ mu' = mu \cup {p}
            /\ pc' = [pc EXCEPT ![p] = "readdir"]
       ELSE /\ mu' = mu
            /\ pc' = [pc EXCEPT ![p] = AfterCall(p)]
    /\ lastCall' = NoCall
    /\ lastRun' = NoRun
    /\ UNCHANGED <<mode, root, gitConfigured, entryIdx, walkPos, totalCount,
                   walkerCount, persisted, reposIndexed, overlapped, appCtxDone>>

\* a wait for the mutex that gives up when the context of the call is cancelled
Lock_Cancellable(p) ==
    /\ pc[p] = "lock"
    /\ IF CtxDone(p)
       THEN /\ mu' = mu
            /\ pc' = [pc EXCEPT ![p] = AfterCall(p)]
       ELSE /\ CanLock(mu)
            /\ mu' = mu \cup {p}
            /\ pc' = [pc EXCEPT ![p] = "readdir"]
    /\ lastCall' = NoCall
    /\ lastRun' = NoRun
    /\ UNCHANGED <<mode, root, gitConfigured, entryIdx, walkPos, totalCount,
                   walkerCount, persisted, reposIndexed, overlapped, appCtxDone>>

\* IndexAllRepos: "idx.mu.Lock()" returns
Lock(p) ==
    /\ pc[p] = "lock"
    /\ CanLock(mu)
    /\ mu' = mu \cup {p}
    /\ pc' = [pc EXCEPT ![p] = "readdir"]
    /\ lastCall' = NoCall
    /\ lastRun' = NoRun
    /\ UNCHANGED <<mode, root, gitConfigured, entryIdx, walkPos, totalCount,
                   walkerCount, persisted, reposIndexed, overlapped, appCtxDone>>

\* IndexAllRepos: "entries, err = os.ReadDir(idx.config.ReposPath)"
ReadDir(p) ==
    /\ pc[p] = "readdir"
    /\ \/ /\ pc' = [pc EXCEPT ![p] = "entries"]
          /\ entryIdx' = [entryIdx EXCEPT ![p] = 1]
          /\ lastRun' = NoRun
          /\ UNCHANGED <<mu, walkPos, totalCount, walkerCount, persisted,
                         reposIndexed, overlapped>>
       \/ Return(p, totalCount[p], ReadDirErr)
    /\ lastCall' = NoCall
    /\ UNCHANGED <<mode, root, gitConfigured, appCtxDone>>

\* IndexAllRepos: ReposIndexed after an entry of the loop.  "idx.metrics.ReposIndexed
\* .Inc()" is reached for every directory entry for which indexRepoIfValid returned
\* a nil error, with or without a walk
ReposIndexedAfter(n, isDir, indexErr) == IF isDir /\ ~indexErr THEN n + 1 ELSE n

\* IndexAllRepos: the loop reaches the next entry, or its end
ForEntry(p) ==
    /\ pc[p] = "entries"
    /\ lastCall' = NoCall
    /\ UNCHANGED <<mode, root, gitConfigured, appCtxDone>>
    /\ IF entryIdx[p] > Len(root)
       THEN \* "return totalCount, err"
            Return(p, totalCount[p], NilErr)
       ELSE LET tree == root[entryIdx[p]] IN
            IF ~EntryIsDir(tree) \/ ~HasGit(tree)
            THEN \* "continue", or indexRepoIfValid returns 0, nil
                 /\ entryIdx' = [entryIdx EXCEPT ![p] = @ + 1]
                 /\ reposIndexed' = [reposIndexed EXCEPT
                                       ![p] = ReposIndexedAfter(@, EntryIsDir(tree), FALSE)]
                 /\ lastRun' = NoRun
                 /\ UNCHANGED <<pc, mu, walkPos, totalCount, walkerCount, persisted,
                                overlapped>>
            ELSE \* IndexRepository, walkAndIndexRepo: filepath.Walk begins
                 /\ pc' = [pc EXCEPT ![p] = "walk"]
                 /\ walkPos' = [walkPos EXCEPT ![p] = 1]
                 /\ walkerCount' = [walkerCount EXCEPT ![p] = 0]
                 /\ lastRun' = NoRun
                 /\ UNCHANGED <<mu, entryIdx, totalCount, persisted, reposIndexed,
                                overlapped>>

\* IndexAllRepos: what the loop adds for a repository whose walk returned
\* (count, walkErr): "if indexErr != nil { ...; continue }", "totalCount += count"
Accumulate(total, count, walkErr) == IF walkErr THEN total ELSE total + count

\* a loop that ends at the first repository that failed
NextEntry_BreakOnError(i, n, walkErr) == IF walkErr THEN n + 1 ELSE i + 1

\* IndexAllRepos: the entry the loop over n entries takes after entry i, whose walk
\* returned walkErr: "if indexErr != nil { idx.logger.Error(...); continue }"
NextEntry(i, n, walkErr) == i + 1

\* filepath.Walk has returned walkErr: back in the loop of IndexAllRepos
WalkReturns(p, count, walkErr) ==
    /\ totalCount' = [totalCount EXCEPT ![p] = Accumulate(@, count, walkErr)]
    /\ entryIdx' = [entryIdx EXCEPT ![p] = NextEntry(@, Len(root), walkErr)]
    /\ reposIndexed' = [reposIndexed EXCEPT ![p] = ReposIndexedAfter(@, TRUE, walkErr)]
    /\ walkPos' = [walkPos EXCEPT ![p] = 0]
    /\ walkerCount' = [walkerCount EXCEPT ![p] = 0]
    /\ pc' = [pc EXCEPT ![p] = "entries"]

\* filepath.Walk goes on at node j with the walker's count at c
WalkGoesOn(p, tree, j, c) ==
    IF j > Len(tree)
    THEN WalkReturns(p, c, FALSE)
    ELSE /\ walkPos' = [walkPos EXCEPT ![p] = j]
         /\ walkerCount' = [walkerCount EXCEPT ![p] = c]
         /\ UNCHANGED <<pc, entryIdx, totalCount, reposIndexed>>

\* walk propagates the error of indexFile
walkProcErr_Propagate(indexErr) == indexErr

\* fileWalker.walk after indexFile: "if indexErr != nil { ...; return procErr }" with
\* procErr still nil: is the walk given an error?
walkProcErr(indexErr) == FALSE

\* filepath.Walk calls fileWalker.walk on the next node.  pathErr: the node cannot
\* be read; parseOk: indexFile parses and reads the file; oks: for which of its
\* nodes IndexDocument returns nil (none under a cancelled context)
Walk(p) ==
    /\ pc[p] = "walk"
    /\ lastRun' = NoRun
    /\ UNCHANGED <<mode, root, gitConfigured, mu, overlapped, appCtxDone>>
    /\ LET tree == root[entryIdx[p]]
           i == walkPos[p]
           n == tree[i]
       IN \E pathErr \in BOOLEAN, parseOk \in BOOLEAN,
             oks \in SubmitResults(n, CtxDone(p)) :
            LET r == walk(n, pathErr)
                subs == Submissions(n, Base(RepoPath(tree)), WalkPath(tree, i), oks)
                okN == FuncCount(subs)
            IN
            CASE r = "pathErr" ->
                   /\ WalkReturns(p, walkerCount[p], TRUE)
                   /\ lastCall' = WalkCall("pathErr")
                   /\ UNCHANGED persisted
              [] r = "SkipDir" ->
                   /\ WalkGoesOn(p, tree, SubtreeEnd(tree, i), walkerCount[p])
                   /\ lastCall' = WalkCall("SkipDir")
                   /\ UNCHANGED persisted
              [] r = "nil" ->
                   /\ WalkGoesOn(p, tree, i + 1, walkerCount[p])
                   /\ lastCall' = WalkCall("nil")
                   /\ UNCHANGED persisted
              [] OTHER ->
                   IF parseOk
                   THEN /\ WalkGoesOn(p, tree, i + 1, walkerCount[p] + okN)
                        /\ lastCall' = IndexedCall(subs)
                        /\ persisted' = [persisted EXCEPT ![p] = @ + okN]
                   ELSE /\ IF walkProcErr(TRUE)
                           THEN WalkReturns(p, walkerCount[p], TRUE)
                           ELSE WalkGoesOn(p, tree, i + 1, walkerCount[p])
                        /\ lastCall' = WalkCall("indexFailed")
                        /\ UNCHANGED persisted

\* main: the signal handler calls cancel()
Shutdown ==
    /\ ~appCtxDone
    /\ appCtxDone' = TRUE
    /\ lastCall' = NoCall
    /\ lastRun' = NoRun
    /\ UNCHANGED <<mode, root, gitConfigured, pc, mu, entryIdx, walkPos, totalCount,
                   walkerCount, persisted, reposIndexed, overlapped>>

\* RunIndexingLoop: "case <-ctx.Done(): ...; return"
LoopStops ==
    /\ pc[Loop] = "select"
    /\ appCtxDone
    /\ pc' = [pc EXCEPT ![Loop] = "stopped"]
    /\ lastCall' = NoCall
    /\ lastRun' = NoRun
    /\ UNCHANGED <<mode, root, gitConfigured, mu, entryIdx, walkPos, totalCount,
                   walkerCount, persisted, reposIndexed, overlapped, appCtxDone>>

\* the Indexer as indexer.New leaves it, with no goroutine started
NoGoroutine ==
    /\ mu = {}
    /\ entryIdx = [p \in Procs |-> 0]
    /\ walkPos = [p \in Procs |-> 0]
    /\ totalCount = [p \in Procs |-> 0]
    /\ walkerCount = [p \in Procs |-> 0]
    /\ persisted = [p \in Procs |-> 0]
    /\ reposIndexed = [p \in Procs |-> 0]
    /\ overlapped = {}
    /\ appCtxDone = FALSE
    /\ lastCall = NoCall
    /\ lastRun = NoRun

\* main with -mode serve, at the call of runServeMode
ServeInit ==
    /\ mode = "serve"
    /\ root = ServeRoot
    /\ gitConfigured \in BOOLEAN
    /\ pc = [p \in Procs |->
               CASE p = Main -> "start" [] p = Loop -> "off" [] OTHER -> "idle"]
    /\ NoGoroutine

\* main with -mode index, at the call of runIndexMode
IndexInit ==
    /\ mode = "index"
    /\ root = IndexRoot
    /\ gitConfigured \in BOOLEAN
    /\ pc = [p \in Procs |-> IF p = Main THEN "lock" ELSE "off"]
    /\ NoGoroutine

\* the Indexer of a program none of whose goroutines is followed
IdxOff(configured) ==
    /\ mode = "serve"
    /\ root = ServeRoot
    /\ gitConfigured = configured
    /\ pc = [p \in Procs |-> "off"]
    /\ NoGoroutine

IdxIdle == IdxOff(FALSE)

\* ------------------------------------------------------------------------
\* Repository Synchronizer: CloneRepos, cloneOrUpdateRepo (visitor.go), gitClone and
\* gitFetch (git.go)
\* ------------------------------------------------------------------------
RepoNames == {"alpha", "beta"}

\* the values of config.GitRepos
RepoLists == UNION {[1..n -> RepoNames] : n \in 0..MaxRepos}

\* var ErrGitConfigRequired
ErrGitConfigRequired == [kind |-> "ErrGitConfigRequired", code |-> 0]

\* the guard is a conjunction: an organization is enough to go on
ConfigMissing_Both(org, repos) == org = "" /\ Len(repos) = 0

\* CloneRepos: "idx.config.GitOrg == "" || len(idx.config.GitRepos) == 0"
ConfigMissing(org, repos) == org = "" \/ Len(repos) = 0

\* what cmd.CombinedOutput returns (waitErr) and what ctx.Err() of the command's
\* context then is (ctxErr).  waitErr: "nil", "ExitError" (the command exited
\* non-zero), "Killed" (the ExitError of a process killed by the context),
\* "Canceled" or "DeadlineExceeded" (the context's error: the command was not
\* started, or exited zero while it was being killed)
CmdResult(waitErr, ctxErr) == [waitErr |-> waitErr, ctxErr |-> ctxErr]

\* the results of a command, given whether the caller's context was cancelled
\* before it started or while it ran
CmdResults(done, during, late) ==
    IF done /\ ~during
    THEN {CmdResult("Canceled", "Canceled")}
    ELSE IF during
    THEN {CmdResult("Killed", "Canceled"), CmdResult("Canceled", "Canceled"),
          CmdResult("nil", "Canceled")}
    ELSE IF late
    THEN {CmdResult("Killed", "DeadlineExceeded"),
          CmdResult("DeadlineExceeded", "DeadlineExceeded")}
    ELSE {CmdResult("nil", "nil"), CmdResult("ExitError", "nil")}

\* the budgets of gitClone and of gitFetch, in seconds
cloneTimeout == 300
fetchTimeout == 120

\* context.WithTimeout(ctx, ...) of the function that runs command c
Timeout(c) == IF c = "clone" THEN cloneTimeout ELSE fetchTimeout

\* the seconds a git command needs to finish when nothing stops it
Needs == {50, 100, 400}

\* the seconds a command ran: until it finished or until the deadline, none when the
\* caller's context stopped it
Took(need, left, stopped) ==
    IF stopped THEN 0 ELSE IF need > left THEN left ELSE need

\* a gitFetch that gives the reset a context of its own
BudgetLeft_Fresh(left, took) == fetchTimeout

\* gitFetch runs the reset under the context of the fetch: what is left of its
\* time after a command that took took
BudgetLeft(left, took) == left - took

NilGitErr ==
    [kind |-> "nil", cmd |-> "none", cause |-> "nil", output |-> FALSE, after |-> 0]

\* every failure is reported as "git ... failed"
GitErr_NoTimeout(c, r) ==
    IF r.waitErr = "nil" THEN NilGitErr
    ELSE [kind |-> "failed", cmd |-> c, cause |-> r.waitErr, output |-> TRUE,
          after |-> 0]

\* gitClone, gitFetch: the error made of the result of a command.  kind "timeout":
\* fmt.Errorf("git %s timed out after %v: %w"); kind "failed":
\* fmt.Errorf("git %s failed: %w: %s", err, string(output))
GitErr(c, r) ==
    IF r.waitErr = "nil" THEN NilGitErr
    ELSE IF r.ctxErr = "DeadlineExceeded"
    THEN [kind |-> "timeout", cmd |-> c, cause |-> r.waitErr, output |-> FALSE,
          after |-> Timeout(c)]
    ELSE [kind |-> "failed", cmd |-> c, cause |-> r.waitErr, output |-> TRUE,
          after |-> 0]

\* errors.Is(err, context.Canceled): the error wraps (%w) the context's error
IsCanceled(e) == e.kind # "nil" /\ e.cause = "Canceled"

\* the range loop ends at the first repository that fails
LoopGoesOn_StopOnError(cloneErr) == cloneErr = NilGitErr

\* CloneRepos: "if cloneErr != nil { idx.logger.Warn(...) }", then the next repository
LoopGoesOn(cloneErr) == TRUE

\* the caller's context is cancelled
CancelSync ==
    /\ ~gitCtxDone
    /\ spc \in {"call", "mkdir", "loop", "run"}
    /\ gitCtxDone' = TRUE
    /\ cmdCancelled' = (spc = "run")
    /\ UNCHANGED <<gitOrg, gitRepos, haveGit, reposDirMade, spc, repoIdx, cmd, spawned,
                   attempts, budget, ran, syncErr>>

\* CloneRepos: the configuration check
CheckGitConfig ==
    /\ spc = "call"
    /\ IF ConfigMissing(gitOrg, gitRepos)
       THEN spc' = "done" /\ syncErr' = ErrGitConfigRequired
       ELSE spc' = "mkdir" /\ syncErr' = syncErr
    /\ UNCHANGED <<gitOrg, gitRepos, haveGit, reposDirMade, repoIdx, cmd, cmdCancelled,
                   gitCtxDone, spawned, attempts, budget, ran>>

\* CloneRepos: "err = os.MkdirAll(idx.config.ReposPath, 0755)"
MkdirAll ==
    /\ spc = "mkdir"
    /\ \/ /\ reposDirMade' = TRUE
          /\ spc' = "loop"
          /\ repoIdx' = 1
          /\ syncErr' = syncErr
       \/ /\ spc' = "done"
          /\ syncErr' = MkdirErr
          /\ UNCHANGED <<reposDirMade, repoIdx>>
    /\ UNCHANGED <<gitOrg, gitRepos, haveGit, cmd, cmdCancelled, gitCtxDone, spawned,
                   attempts, budget, ran>>

\* the git function cloneOrUpdateRepo calls for a command
GitFunc(c) == IF c = "clone" THEN "gitClone" ELSE "gitFetch"

\* exec.Cmd.Start starts no process under a context that is already done
Spawn(n, done) == IF done THEN n ELSE n + 1

\* CloneRepos: the range loop calls cloneOrUpdateRepo, which stats .git and calls
\* gitFetch or gitClone, which starts its first command
cloneOrUpdateRepo ==
    /\ spc = "loop"
    /\ repoIdx <= Len(gitRepos)
    /\ spc' = "run"
    /\ cmd' = IF gitRepos[repoIdx] \in haveGit THEN "fetch" ELSE "clone"
    /\ budget' = Timeout(cmd')
    /\ ran' = <<>>
    /\ cmdCancelled' = FALSE
    /\ spawned' = Spawn(spawned, gitCtxDone)
    /\ UNCHANGED <<gitOrg, gitRepos, haveGit, reposDirMade, repoIdx, gitCtxDone,
                   attempts, syncErr>>

\* gitClone, gitFetch: "output, err = cmd.CombinedOutput()" returns.  After a fetch
\* that succeeded gitFetch starts the reset; otherwise the function returns to
\* cloneOrUpdateRepo and that to the loop of CloneRepos
CombinedOutput ==
    /\ spc = "run"
    /\ \E need \in Needs :
       \E r \in CmdResults(gitCtxDone, cmdCancelled, need > budget) :
         LET e == GitErr(cmd, r)
             took == Took(need, budget, gitCtxDone \/ cmdCancelled)
         IN
         /\ ran' = Append(ran, [cmd |-> cmd, need |-> need, took |-> took, result |-> r])
         /\ budget' = BudgetLeft(budget, took)
         /\ IF cmd = "fetch" /\ e = NilGitErr
            THEN /\ cmd' = "reset"
                 /\ cmdCancelled' = FALSE
                 /\ spawned' = Spawn(spawned, gitCtxDone)
                 /\ UNCHANGED <<haveGit, spc, repoIdx, attempts, syncErr>>
            ELSE /\ attempts' = Append(attempts,
                       [repo |-> gitRepos[repoIdx], fn |-> GitFunc(cmd), err |-> e,
                        result |-> r, cancelledDuring |-> cmdCancelled])
                 /\ haveGit' = IF cmd = "clone" /\ e = NilGitErr
                               THEN haveGit \cup {gitRepos[repoIdx]} ELSE haveGit
                 /\ cmd' = "none"
                 /\ cmdCancelled' = FALSE
                 /\ spawned' = spawned
                 /\ IF LoopGoesOn(e)
                    THEN spc' = "loop" /\ repoIdx' = repoIdx + 1 /\ syncErr' = syncErr
                    ELSE spc' = "done" /\ repoIdx' = repoIdx /\ syncErr' = NilErr
    /\ UNCHANGED <<gitOrg, gitRepos, reposDirMade, gitCtxDone>>

\* CloneRepos: the range loop is over, "return err" with the nil of MkdirAll
SyncReturns ==
    /\ spc = "loop"
    /\ repoIdx > Len(gitRepos)
    /\ spc' = "done"
    /\ syncErr' = NilErr
    /\ UNCHANGED <<gitOrg, gitRepos, haveGit, reposDirMade, repoIdx, cmd, cmdCancelled,
                   gitCtxDone, spawned, attempts, budget, ran>>

\* no call of CloneRepos in progress
SyncOff ==
    /\ haveGit = {}
    /\ reposDirMade = FALSE
    /\ repoIdx = 0
    /\ cmd = "none"
    /\ cmdCancelled = FALSE
    /\ gitCtxDone = FALSE
    /\ spawned = 0
    /\ attempts = <<>>
    /\ budget = 0
    /\ ran = <<>>
    /\ syncErr = NilErr

\* the synchronizer of a program that does not follow CloneRepos step by step
SyncIdle ==
    /\ gitOrg = (IF gitConfigured THEN "acme" ELSE "")
    /\ gitRepos = (IF gitConfigured THEN <<"alpha">> ELSE <<>>)
    /\ spc = "off"
    /\ SyncOff

\* CloneRepos is called with some configuration, with some repositories cloned
\* before
SyncInit ==
    /\ gitOrg \in {"", "acme"}
    /\ gitRepos \in RepoLists
    /\ spc = "call"
    /\ repoIdx = 0
    /\ cmd = "none"
    /\ cmdCancelled = FALSE
    /\ gitCtxDone = FALSE
    /\ reposDirMade = FALSE
    /\ haveGit \in SUBSET RepoNames
    /\ spawned = 0
    /\ attempts = <<>>
    /\ budget = 0
    /\ ran = <<>>
    /\ syncErr = NilErr

SyncNext ==
    \/ CancelSync /\ UNCHANGED <<storeVars, idxVars, searchVars, docVars, cfgVars>>
    \/ CheckGitConfig /\ UNCHANGED <<storeVars, idxVars, searchVars, docVars, cfgVars>>
    \/ MkdirAll /\ UNCHANGED <<storeVars, idxVars, searchVars, docVars, cfgVars>>
    \/ cloneOrUpdateRepo /\ UNCHANGED <<storeVars, idxVars, searchVars, docVars, cfgVars>>
    \/ CombinedOutput /\ UNCHANGED <<storeVars, idxVars, searchVars, docVars, cfgVars>>
    \/ SyncReturns /\ UNCHANGED <<storeVars, idxVars, searchVars, docVars, cfgVars>>


\* ------------------------------------------------------------------------
\* Client.Search (client.go) and the store's ordering of the hits
\* ------------------------------------------------------------------------
NoQuery == [size |-> 0, sort |-> <<>>]

\* a matching document: CodeDocument.HasNamedReturns, .HasErrorHandling and the
\* _score the store computed for the query
Hit(named, errh, score) ==
    [has_namedreturns |-> named, has_error_handling |-> errh, score |-> score]

Hits == {Hit(n, e, sc) : n \in BOOLEAN, e \in BOOLEAN, sc \in 1..MaxScore}

\* the API documentation of POST /api/v1/search: "Max results (default: 10, max: 100)"
maxLimit == 100

\* Search: the limit used when the caller gives none
defaultLimit == 10

\* handleSearch: "s.es.Search(r.Context(), req.Query, req.Limit)", the limit of the
\* decoded request is passed on as it is
handleSearch(reqLimit) == reqLimit

\* a Search that replaces only a zero limit
EffectiveLimit_OnlyZero(l) == IF l = 0 THEN defaultLimit ELSE l

\* Search: "if limit <= 0 { limit = 10 }"
EffectiveLimit(l) == IF l <= 0 THEN defaultLimit ELSE l

\* Search: the "sort" of searchQuery, every field "desc"
SearchSort == <<"has_namedreturns", "has_error_handling">>

\* the value the store sorts a hit by for one sort field
SortKey(h, field) ==
    IF field = "_score" THEN h.score ELSE IF h[field] THEN 1 ELSE 0

\* hit a sorts strictly before hit b under the sort fields, all descending
SortsBefore(a, b, sort) ==
    \E k \in DOMAIN sort :
        /\ SortKey(a, sort[k]) > SortKey(b, sort[k])
        /\ \A j \in 1..(k - 1) : SortKey(a, sort[j]) = SortKey(b, sort[j])

\* the orders in which the store may return the documents ids for a sort: hits
\* that are equal in every sort field come in the store's internal order, which is
\* any order
StoreOrders(docs, sort) ==
    {seq \in [1..Cardinality(DOMAIN docs) -> DOMAIN docs] :
        /\ \A i, j \in DOMAIN seq : i # j => seq[i] # seq[j]
        /\ \A i, j \in DOMAIN seq :
             i < j => ~SortsBefore(docs[seq[j]], docs[seq[i]], sort)}

\* the first n elements of a sequence
Top(seq, n) == SubSeq(seq, 1, IF n < Len(seq) THEN n ELSE Len(seq))

\* Search builds and sends searchQuery
SendSearch ==
    /\ searchSent = NoQuery
    /\ searchSent' = [size |-> EffectiveLimit(limit), sort |-> SearchSort]
    /\ UNCHANGED <<matched, limit, results>>

\* the store answers 200 with its hits in sort order, at most "size" of them, and
\* Search appends hit.Source of each to results
SearchReturns ==
    /\ searchSent # NoQuery
    /\ results = <<>>
    /\ matched # <<>>
    /\ \E seq \in StoreOrders(matched, searchSent.sort) :
         results' = [i \in DOMAIN Top(seq, searchSent.size) |-> matched[seq[i]]]
    /\ UNCHANGED <<matched, limit, searchSent>>

\* no search in progress
SearchIdle ==
    /\ matched = <<>>
    /\ limit = 0
    /\ searchSent = NoQuery
    /\ results = <<>>

\* the "limit" values of the search requests: absent (0) and small ones, and a
\* negative one and those around the documented maximum
RequestLimits == 0..MaxDocs
OtherRequestLimits == {0 - 1, maxLimit, maxLimit + 1}

\* Search is called with some limit on an index in which some documents match (one
\* document for the limits out of the ordinary)
SearchInit ==
    /\ \/ /\ matched \in UNION {[1..n -> Hits] : n \in 1..MaxDocs}
          /\ limit \in {handleSearch(l) : l \in RequestLimits}
       \/ /\ matched \in [1..1 -> Hits]
          /\ limit \in {handleSearch(l) : l \in OtherRequestLimits}
    /\ searchSent = NoQuery
    /\ results = <<>>

SearchNext ==
    \/ SendSearch /\ UNCHANGED <<storeVars, idxVars, syncVars, docVars, cfgVars>>
    \/ SearchReturns /\ UNCHANGED <<storeVars, idxVars, syncVars, docVars, cfgVars>>

\* ------------------------------------------------------------------------
\* A CodeDocument from extractFunctionDoc to the store and back: json.Marshal in
\* IndexDocument, the decoding of "_source" in Search (client.go, models.go)
\* ------------------------------------------------------------------------
NoDecl == [none |-> "parsed"]
NoDoc == [none |-> "document"]
NoData == [none |-> "data"]

\* the json tags of CodeDocument
StringKeys == {"repo", "file_path", "function_name", "code", "package"}
BoolKeys == {"has_namedreturns", "has_error_handling", "lint_compliant"}
JSONKeys == StringKeys \cup BoolKeys \cup {"imports", "indexed_at"}

\* encoding/json writes a string with a backslash before '"' and '\' ...
RECURSIVE Escape(_)
Escape(str) ==
    IF str = <<>> THEN <<>>
    ELSE (IF Head(str) \in {"\"", "\\"} THEN <<"\\", Head(str)>> ELSE <<Head(str)>>)
         \o Escape(Tail(str))

\* ... and reads the character after a backslash as itself
RECURSIVE Unescape(_)
Unescape(text) ==
    IF text = <<>> THEN <<>>
    ELSE IF Head(text) = "\\" THEN <<text[2]>> \o Unescape(Tail(Tail(text)))
    ELSE <<Head(text)>> \o Unescape(Tail(text))

\* JSON values
JString(str) == [t |-> "string", text |-> Escape(str)]
JBool(b) == [t |-> "bool", b |-> b]
JNull == [t |-> "null"]
JArray(elems) == [t |-> "array", elems |-> elems]

\* Time.MarshalJSON: RFC 3339 with nanoseconds, the instant with the zone of the
\* location; the monotonic clock reading is not written
JTime(at) ==
    [t |-> "string", instant |-> at.instant,
     zone |-> IF at.loc = "UTC" THEN "Z" ELSE "+02:00"]

\* Time.UnmarshalJSON
ParseTime(j) == Time(j.instant, FALSE, IF j.zone = "Z" THEN "UTC" ELSE "Local")

\* t.Equal(u): the same instant
TimeEqual(t, u) == t.instant = u.instant

\* a CodeDocument whose imports carry ",omitempty"
MarshalKeys_OmitEmpty(doc) ==
    IF doc.imports.elems = <<>> THEN JSONKeys \ {"imports"} ELSE JSONKeys

\* the keys json.Marshal writes for a CodeDocument: no tag has "omitempty"
MarshalKeys(doc) == JSONKeys

MarshalField(doc, k) ==
    CASE k \in StringKeys -> JString(doc[k])
      [] k \in BoolKeys -> JBool(doc[k])
      [] k = "imports" ->
           IF doc.imports.nil THEN JNull
           ELSE JArray([i \in DOMAIN doc.imports.elems |-> JString(doc.imports.elems[i])])
      [] OTHER -> JTime(doc.indexed_at)

\* json.Marshal(doc)
Marshal(doc) == [k \in MarshalKeys(doc) |-> MarshalField(doc, k)]

\* "var decoded CodeDocument"
ZeroDocument ==
    CodeDocument(<<>>, <<>>, <<>>, <<>>, FALSE, FALSE, <<>>, NilSlice, FALSE,
                 Time(0, FALSE, "UTC"))

UnmarshalField(k, j) ==
    CASE k \in StringKeys -> Unescape(j.text)
      [] k \in BoolKeys -> j.b
      [] k = "imports" -> Slice([i \in DOMAIN j.elems |-> Unescape(j.elems[i].text)])
      [] OTHER -> ParseTime(j)

\* json.Unmarshal(data, &decoded): a key that is absent or null leaves the field as
\* it was
Unmarshal(obj) ==
    [k \in JSONKeys |->
        IF k \notin DOMAIN obj \/ obj[k] = JNull THEN ZeroDocument[k]
        ELSE UnmarshalField(k, obj[k])]

\* the result lists of the declarations given to extractFunctionDoc
ResultLists ==
    {NilResults} \cup
    {FieldList(l) : l \in UNION {[1..n -> {Field(k) : k \in 0..MaxNames}] :
                                    n \in 0..MaxFields}}

\* the texts of the declarations: plain, with the error check, with characters
\* that JSON escapes
Sources ==
    { <<"{", "}">>, <<"{", IfErrNotNil, "}">>, <<"{", "\"", "\\", "n", "}">> }

ImportPaths == { <<"o", "s">>, <<"i", "o">> }

\* the non-empty import lists of a file
ImportLists ==
    {Slice(l) : l \in UNION {[1..n -> ImportPaths] : n \in 1..MaxImports}}

\* what indexFile hands to extractFunctionDoc for one declaration
DeclInputs ==
    {[decl |-> FuncDecl(<<"f">>, "", res, src), imports |-> im] :
        res \in ResultLists, src \in Sources, im \in {NilSlice} \cup ImportLists}

Times == {Time(1, mono, loc) : mono \in BOOLEAN, loc \in {"UTC", "Local"}}

\* the documents a caller of IndexDocument can build
CodeDocuments ==
    {CodeDocument(<<"r">>, <<"a", ".", "g", "o">>, <<"f">>, src, named, errh, <<"p">>,
                  im, lint, at) :
        src \in Sources, named \in BOOLEAN, errh \in BOOLEAN, lint \in BOOLEAN,
        im \in {NilSlice, Slice(<<>>)} \cup ImportLists, at \in Times}

\* Visit: "doc := extractFunctionDoc(funcDecl, v.fset, v.content, v.repo, ...)"
ExtractDoc ==
    /\ parsed # NoDecl
    /\ document = NoDoc
    /\ document' = extractFunctionDoc(parsed.decl, <<"r">>, <<"a", ".", "g", "o">>,
                                      <<"p">>, parsed.imports, PassNow)
    /\ UNCHANGED <<parsed, data, decoded>>

\* IndexDocument: "data, err = json.Marshal(doc)"
MarshalDoc ==
    /\ document # NoDoc
    /\ data = NoData
    /\ data' = Marshal(document)
    /\ UNCHANGED <<parsed, document, decoded>>

\* Search: "json.NewDecoder(resp.Body).Decode(&searchResp)" fills hit.Source from
\* the "_source" the store kept
UnmarshalDoc ==
    /\ data # NoData
    /\ decoded = NoDoc
    /\ decoded' = Unmarshal(data)
    /\ UNCHANGED <<parsed, document, data>>

\* no document in hand
DocIdle ==
    /\ parsed = NoDecl
    /\ document = NoDoc
    /\ data = NoData
    /\ decoded = NoDoc

\* a declaration about to be extracted, or a document built by the caller
DocInit ==
    /\ \/ parsed \in DeclInputs /\ document = NoDoc
       \/ parsed = NoDecl /\ document \in CodeDocuments
    /\ data = NoData
    /\ decoded = NoDoc

DocNext ==
    \/ ExtractDoc /\ UNCHANGED <<storeVars, idxVars, syncVars, searchVars, cfgVars>>
    \/ MarshalDoc /\ UNCHANGED <<storeVars, idxVars, syncVars, searchVars, cfgVars>>
    \/ UnmarshalDoc /\ UNCHANGED <<storeVars, idxVars, syncVars, searchVars, cfgVars>>

\* ------------------------------------------------------------------------
\* config.Load (config.go) and the start of RunIndexingLoop (visitor.go)
\* ------------------------------------------------------------------------
\* a duration string of one number and one unit, by its parts: "-5m" is
\* Dur("-", 5, "m"); NoDigits where there is no number
NoDigits == 0 - 1
Dur(sign, digits, unit) == [sign |-> sign, digits |-> digits, unit |-> unit]

\* the empty string: the variable is unset or empty
Unset == Dur("", NoDigits, "")

\* getEnv("INDEX_INTERVAL", "5m")
DefaultInterval == Dur("", 5, "m")

\* getEnv: "if value == "" { value = defaultVal }"
getEnv(value, defaultVal) == IF value = Unset THEN defaultVal ELSE value

\* the units of time.ParseDuration used here, in milliseconds
Units == {"ms", "s", "m", "h"}
UnitMs(unit) ==
    CASE unit = "ms" -> 1
      [] unit = "s" -> 1000
      [] unit = "m" -> 60000
      [] OTHER -> 3600000

\* time.ParseDuration(intervalStr): "[-+]?([0-9]*(\.[0-9]*)?[a-z]+)+".  A sign is
\* consumed first; what is left must be "0" or numbers with units
ParseDuration(str) ==
    IF str.digits = 0 /\ str.unit = "" THEN [ok |-> TRUE, d |-> 0]
    ELSE IF str.digits = NoDigits \/ str.unit \notin Units
    THEN [ok |-> FALSE, d |-> 0]
    ELSE [ok |-> TRUE,
          d |-> (IF str.sign = "-" THEN 0 - 1 ELSE 1) * str.digits * UnitMs(str.unit)]

\* time.NewTicker(d) panics with "non-positive interval for NewTicker"
TickerPanics(d) == d <= 0

\* the values of INDEX_INTERVAL
IntervalNumbers == {NoDigits} \cup (0..MaxInterval)
IntervalStrings ==
    {Dur(sg, n, u) : sg \in {"", "-", "+"}, n \in IntervalNumbers,
                     u \in Units \cup {"", "x"}}

\* main: "cfg, err := config.Load()", "log.Fatalf("Failed to load config: %v", err)"
Load ==
    /\ boot = "load"
    /\ LET r == ParseDuration(getEnv(intervalStr, DefaultInterval)) IN
       /\ indexInterval' = r.d
       /\ boot' = IF r.ok THEN "loaded" ELSE "fatal"
    /\ UNCHANGED intervalStr

\* runServeMode: "go idx.RunIndexingLoop(ctx)", whose first statement is
\* "ticker := time.NewTicker(idx.config.IndexInterval)"; a panic in a goroutine
\* ends the process
RunIndexingLoop ==
    /\ boot = "loaded"
    /\ boot' = IF TickerPanics(indexInterval) THEN "panic" ELSE "ticking"
    /\ UNCHANGED <<intervalStr, indexInterval>>

\* the start is not followed
CfgIdle ==
    /\ intervalStr = Unset
    /\ indexInterval = 0
    /\ boot = "off"

\* the program starts in serve mode with some INDEX_INTERVAL
CfgInit ==
    /\ intervalStr \in IntervalStrings
    /\ indexInterval = 0
    /\ boot = "load"

CfgNext ==
    \/ Load /\ UNCHANGED <<storeVars, idxVars, syncVars, searchVars, docVars>>
    \/ RunIndexingLoop /\ UNCHANGED <<storeVars, idxVars, syncVars, searchVars, docVars>>

\* the Document Store Client on its own
InitStore == StoreInit /\ IdxIdle /\ SyncIdle /\ SearchIdle /\ DocIdle /\ CfgIdle

SpecStore == InitStore /\ [][StoreNext]_vars

\* es.client.Do returns (http.Client has a Timeout), time.After fires, and the
\* goroutine of the call keeps running
StoreFairness ==
    WF_vars((RetryAttempt \/ RetryBackoffElapsed \/ RetryCancelled \/ FinishCall)
            /\ UNCHANGED <<idxVars, syncVars, searchVars, docVars, cfgVars>>)

FairSpecStore == SpecStore /\ StoreFairness

\* the program in serve mode: the initial index, then the periodic loop and the
\* on-demand reindex goroutines
Init ==
    /\ StoreInit /\ storeMapping = indexMapping
    /\ ServeInit /\ SyncIdle /\ SearchIdle /\ DocIdle /\ CfgIdle

Next ==
    \/ Startup /\ UNCHANGED <<storeVars, syncVars, searchVars, docVars, cfgVars>>
    \/ Tick /\ UNCHANGED <<storeVars, syncVars, searchVars, docVars, cfgVars>>
    \/ \E p \in {Main, Loop} : CloneRepos(p) /\ UNCHANGED <<storeVars, syncVars, searchVars, docVars, cfgVars>>
    \/ \E p \in Reindexers : handleReindex(p) /\ UNCHANGED <<storeVars, syncVars, searchVars, docVars, cfgVars>>
    \/ \E p \in Procs : Lock(p) /\ UNCHANGED <<storeVars, syncVars, searchVars, docVars, cfgVars>>
    \/ \E p \in Procs : ReadDir(p) /\ UNCHANGED <<storeVars, syncVars, searchVars, docVars, cfgVars>>
    \/ \E p \in Procs : ForEntry(p) /\ UNCHANGED <<storeVars, syncVars, searchVars, docVars, cfgVars>>
    \/ \E p \in Procs : Walk(p) /\ UNCHANGED <<storeVars, syncVars, searchVars, docVars, cfgVars>>
    \/ Shutdown /\ UNCHANGED <<storeVars, syncVars, searchVars, docVars, cfgVars>>
    \/ LoopStops /\ UNCHANGED <<storeVars, syncVars, searchVars, docVars, cfgVars>>

Spec == Init /\ [][Next]_vars

\* sync.Mutex hands a mutex that is unlocked again and again to its waiters (its
\* starvation mode), and a goroutine inside a pass keeps running
Fairness ==
    /\ \A p \in Procs : SF_vars(Lock(p) /\ UNCHANGED <<storeVars, syncVars, searchVars, docVars, cfgVars>>)
    /\ WF_vars(\E p \in Procs :
                  (ReadDir(p) \/ ForEntry(p) \/ Walk(p)) /\ UNCHANGED <<storeVars, syncVars, searchVars, docVars, cfgVars>>)

FairSpec == Spec /\ Fairness

\* the program in index mode: runIndexMode, one pass and exit
NextIndexMode ==
    \/ Lock(Main) /\ UNCHANGED <<storeVars, syncVars, searchVars, docVars, cfgVars>>
    \/ ReadDir(Main) /\ UNCHANGED <<storeVars, syncVars, searchVars, docVars, cfgVars>>
    \/ ForEntry(Main) /\ UNCHANGED <<storeVars, syncVars, searchVars, docVars, cfgVars>>
    \/ Walk(Main) /\ UNCHANGED <<storeVars, syncVars, searchVars, docVars, cfgVars>>

InitIndexMode ==
    /\ StoreInit /\ storeMapping = indexMapping
    /\ IndexInit /\ SyncIdle /\ SearchIdle /\ DocIdle /\ CfgIdle

SpecIndexMode == InitIndexMode /\ [][NextIndexMode]_vars

\* one call of CloneRepos
InitSync ==
    /\ StoreInit /\ storeMapping = indexMapping
    /\ SyncInit
    /\ IdxOff(~ConfigMissing(gitOrg, gitRepos))
    /\ SearchIdle /\ DocIdle /\ CfgIdle

SpecSync == InitSync /\ [][SyncNext]_vars

\* serve mode while the periodic loop is inside CloneRepos, followed command by
\* command, for a configuration whose one repository was cloned before: the
\* goroutines of handleReindex call IndexAllRepos over the same ReposPath
InitSyncDuringReindex ==
    /\ StoreInit /\ storeMapping = indexMapping
    /\ gitOrg = "acme"
    /\ gitRepos = <<"alpha">>
    /\ haveGit = {"alpha"}
    /\ spc = "call"
    /\ reposDirMade = FALSE
    /\ repoIdx = 0
    /\ cmd = "none"
    /\ cmdCancelled = FALSE
    /\ gitCtxDone = FALSE
    /\ spawned = 0
    /\ attempts = <<>>
    /\ budget = 0
    /\ ran = <<>>
    /\ syncErr = NilErr
    /\ mode = "serve"
    /\ root = IndexRoot
    /\ gitConfigured = TRUE
    /\ pc = [p \in Procs |->
               CASE p = Main -> "serving" [] p = Loop -> "clone" [] OTHER -> "idle"]
    /\ NoGoroutine
    /\ SearchIdle /\ DocIdle /\ CfgIdle

NextSyncDuringReindex ==
    \/ CheckGitConfig /\ UNCHANGED <<storeVars, idxVars, searchVars, docVars, cfgVars>>
    \/ MkdirAll /\ UNCHANGED <<storeVars, idxVars, searchVars, docVars, cfgVars>>
    \/ cloneOrUpdateRepo /\ UNCHANGED <<storeVars, idxVars, searchVars, docVars, cfgVars>>
    \/ CombinedOutput /\ UNCHANGED <<storeVars, idxVars, searchVars, docVars, cfgVars>>
    \/ SyncReturns /\ UNCHANGED <<storeVars, idxVars, searchVars, docVars, cfgVars>>
    \/ \E p \in Reindexers : handleReindex(p) /\ UNCHANGED <<storeVars, syncVars, searchVars, docVars, cfgVars>>
    \/ \E p \in Reindexers : Lock(p) /\ UNCHANGED <<storeVars, syncVars, searchVars, docVars, cfgVars>>
    \/ \E p \in Reindexers : ReadDir(p) /\ UNCHANGED <<storeVars, syncVars, searchVars, docVars, cfgVars>>
    \/ \E p \in Reindexers : ForEntry(p) /\ UNCHANGED <<storeVars, syncVars, searchVars, docVars, cfgVars>>
    \/ \E p \in Reindexers : Walk(p) /\ UNCHANGED <<storeVars, syncVars, searchVars, docVars, cfgVars>>

SpecSyncDuringReindex == InitSyncDuringReindex /\ [][NextSyncDuringReindex]_vars

\* the start of the program in serve mode, from the environment to the ticker
InitStart ==
    /\ StoreInit /\ storeMapping = indexMapping
    /\ IdxIdle /\ SyncIdle
    /\ SearchIdle /\ DocIdle
    /\ CfgInit

SpecStart == InitStart /\ [][CfgNext]_vars

\* one call of Search that the store answers
InitSearch ==
    /\ StoreInit /\ storeMapping = indexMapping
    /\ IdxIdle /\ SyncIdle
    /\ SearchInit /\ DocIdle /\ CfgIdle

SpecSearch == InitSearch /\ [][SearchNext]_vars

\* one document from its declaration to the store and back
InitDocument ==
    /\ StoreInit /\ storeMapping = indexMapping
    /\ IdxIdle /\ SyncIdle /\ SearchIdle
    /\ DocInit /\ CfgIdle

SpecDocument == InitDocument /\ [][DocNext]_vars

\* ------------------------------------------------------------------------
\* Claims about the Indexing Orchestrator (checked under Spec and FairSpec)
\* ------------------------------------------------------------------------
Holders == {p \in Procs : pc[p] \in InPass}

\* C1: at most one IndexAllRepos call is between acquiring and releasing the lock.
C1_AtMostOneIndexRun == Cardinality(Holders) <= 1 /\ Cardinality(mu) <= 1

C1_Witness ==
    /\ pc[Loop] = "walk"
    /\ \A r \in Reindexers : pc[r] = "lock"

\* C2: a call that waits for the lock is not dropped: it eventually acquires the
\* lock, it acquires it only when no other call holds it, and once it holds the
\* lock it completes its pass and returns.
C2_WaitingCallRuns ==
    /\ \A p \in Procs : (pc[p] = "lock") ~> (pc[p] \in InPass)
    /\ \A p \in Procs : (pc[p] \in InPass) ~> (pc[p] \notin InCall)
    /\ [][\A p \in Procs : (pc[p] = "lock" /\ pc'[p] \in InPass) => mu = {}]_vars

C2_Witness ==
    \E p, q \in Reindexers :
        /\ p # q
        /\ pc[p] = "walk"
        /\ pc[q] = "lock"
        /\ pc[Loop] = "lock"

\* C3: a goroutine whose IndexAllRepos call has returned, with a count or with the
\* ReadDir error, does not hold the lock.
C3_LockReleasedOnReturn == \A p \in Procs : pc[p] \notin InPass => p \notin mu

C3_Witness ==
    /\ lastRun.returned /\ lastRun.err = ReadDirErr /\ lastRun.overlapped
    /\ mu = {}
    /\ \E p \in Reindexers : p \in overlapped /\ pc[p] = "lock"

\* C4 (as claimed): the total returned by a call of IndexAllRepos that overlapped
\* another call is the number of documents the store accepted from that call.
C4_CountIsPersisted ==
    (lastRun.returned /\ lastRun.overlapped) => lastRun.count = lastRun.persisted

\* ------------------------------------------------------------------------
\* Claims about the Document Store Client (checked under SpecStore)
\* ------------------------------------------------------------------------
RetryReturned == cpc \in {"retdone", "returned"} /\ req # "none"

LastAnswer == answers[Len(answers)]

\* C5: an endpoint answering 500, 500 and then 200 sees exactly three attempts, the
\* sleep before the third attempt (the base delay doubled) is strictly longer than
\* the sleep before the second (the base delay), and the call succeeds with the 200
\* (a Search returns nil or, when the body of the 200 does not decode, the decoder's
\* error, never an error of the retry loop).
C5_RetryThenSuccess ==
    (Len(answers) >= 3
       /\ SubSeq(answers, 1, 3) = <<StatusInternalServerError, StatusInternalServerError, StatusOK>>)
    => /\ RetryReturned
       /\ Len(answers) = 3
       /\ sent[req] = 3
       /\ sleeps = <<retryBackoff, retryBackoff * retryMultiplier>>
       /\ sleeps[2] > sleeps[1]
       /\ resp = StatusOK
       /\ err = NilErr
       /\ (cpc = "returned" => callErr \in {NilErr, DecodeErr})

C5_Witness ==
    /\ cpc = "returned"
    /\ answers = <<StatusInternalServerError, StatusInternalServerError, StatusOK>>
    /\ callErr = NilErr

\* C6: a response with a status below 500 is never retried: it is the last answer
\* of the request, doRequestWithRetry has returned it with a nil error, and an
\* endpoint answering 400 sees exactly one attempt.
C6_NoRetryBelow500 ==
    \A i \in DOMAIN answers :
        (answers[i] # NoResponse /\ answers[i] < StatusInternalServerError)
        => /\ i = Len(answers)
           /\ RetryReturned
           /\ sent[req] = i
           /\ resp = answers[i]
           /\ err = NilErr

C6_Witness ==
    /\ cpc = "retdone"
    /\ answers = <<StatusBadRequest>>
    /\ sent[req] = 1
    /\ resp = StatusBadRequest

\* C7: when all maxRetries + 1 attempts of a store call were answered with a 5xx
\* response, doRequestWithRetry returns a non-nil error carrying the status of the
\* last response, and the call returns that error.
C7_ExhaustedNamesLastStatus ==
    (RetryReturned
       /\ Len(answers) = maxRetries + 1
       /\ \A i \in DOMAIN answers : answers[i] >= StatusInternalServerError)
    => /\ err = RetriesExhaustedErr(LastAnswer)
       /\ (cpc = "returned" => callErr = RetriesExhaustedErr(LastAnswer))

C7_Witness ==
    /\ cpc = "returned"
    /\ op = "index"
    /\ answers = <<StatusInternalServerError, StatusInternalServerError,
                   StatusInternalServerError, StatusServiceUnavailable>>
    /\ callErr = RetriesExhaustedErr(StatusServiceUnavailable)

\* C8: while doRequestWithRetry waits before a retry and the context is cancelled,
\* the only step it takes is to return the context's error: no sleep is completed
\* and no further attempt is made.
C8_BackoffCancellable ==
    [][(cpc = "backoff" /\ ctxDone)
       => (/\ cpc' = "retdone"
           /\ err' = CanceledErr
           /\ sent' = sent
           /\ answers' = answers
           /\ sleeps' = sleeps)]_vars

C8_Witness ==
    /\ cpc = "retdone"
    /\ ctxDone
    /\ err = CanceledErr
    /\ Len(answers) = 2
    /\ Len(sleeps) = 1

\* C9 (as claimed): every network call of the client is retried: a request of a
\* returned, uncancelled call whose first send met a transport error or a 5xx
\* response was sent at least twice.
C9_EveryCallRetried ==
    (cpc = "returned" /\ ~ctxDone)
    => /\ (headAns \in FaultStatuses => sent["HEAD"] >= 2)
       /\ ((req # "none" /\ answers[1] \in FaultStatuses) => sent[req] >= 2)

\* C10: after an EnsureIndex that returned nil, a following EnsureIndex sends no
\* create request and, its existence check being answered by the store, returns
\* nil; the store holds exactly one index, with the fixed schema, created at most once.
C10_EnsureIndexIdempotent ==
    (/\ cpc = "returned"
     /\ op = "ensure"
     /\ calls # <<>>
     /\ calls[Len(calls)] = <<"ensure", TRUE>>)
    => /\ sent["PUT"] = 0
       /\ (headAns \notin FaultStatuses => callErr = NilErr)
       /\ storeMapping = indexMapping
       /\ storeCreates <= 1

C10_Witness ==
    /\ cpc = "returned"
    /\ op = "ensure"
    /\ calls = << <<"ensure", TRUE>> >>
    /\ storeCreates = 1
    /\ sent["HEAD"] = 1
    /\ sent["PUT"] = 0
    /\ callErr = NilErr

\* ------------------------------------------------------------------------
\* Claims about the Tree Walker (checked under SpecIndexMode)
\* ------------------------------------------------------------------------
\* the node at i lies below a directory named ".git" or "vendor"
UnderPruned(tree, i) ==
    \E j \in 1..(i - 1) :
        /\ tree[j].dir /\ tree[j].name \in {"vendor", ".git"}
        /\ i < SubtreeEnd(tree, j)

\* the walk of p goes on at node j of its tree, or returns no error when there is
\* none, with c more functions counted
WalkContinues(p, j, c) ==
    IF j <= Len(root[entryIdx[p]])
    THEN /\ pc'[p] = "walk"
         /\ walkPos'[p] = j
         /\ walkerCount'[p] = walkerCount[p] + c
    ELSE /\ pc'[p] = "entries"
         /\ totalCount'[p] = totalCount[p] + walkerCount[p] + c

\* C11: a file whose parse fails, or some of whose functions the store refuses, does
\* not end the walk: the walk goes on at the next node (or returns no error at the
\* end of the tree), and the file adds to the count exactly the functions stored
\* from it, none when indexFile failed.
C11_FileFailureDoesNotAbort ==
    [][\A p \in Procs :
          (pc[p] = "walk" /\ lastCall'.fn = "walk"
             /\ lastCall'.res \in {"indexed", "indexFailed"})
          => /\ WalkContinues(p, walkPos[p] + 1, persisted'[p] - persisted[p])
             /\ lastCall'.res = "indexFailed" => persisted'[p] = persisted[p]]_vars

\* alpha: a.go was indexed, the parse of sub/b.go failed, and the walk is at the
\* next node
C11_Witness ==
    /\ pc[Main] = "walk"
    /\ lastCall = WalkCall("indexFailed")
    /\ walkerCount[Main] > 0
    /\ root[entryIdx[Main]][walkPos[Main] - 1].name = "b.go"

\* C12 (as claimed): a traversal error on a path below the repository root does not
\* end the walk: the walk goes on at the first node outside the subtree of that
\* path, or returns no error when there is none.
C12_TraversalErrorKeepsWalk ==
    [][\A p \in Procs :
          (pc[p] = "walk" /\ lastCall' = WalkCall("pathErr") /\ walkPos[p] > 1)
          => WalkContinues(p, SubtreeEnd(root[entryIdx[p]], walkPos[p]), 0)]_vars

\* C13: no node below a directory named ".git" or "vendor" is ever handed to
\* fileWalker.walk, so none of its files reaches indexFile; and pruning such a
\* directory skips its subtree only, the walk going on at the first node outside.
C13_WalkerPrunes ==
    /\ [](\A p \in Procs :
            pc[p] = "walk" => ~UnderPruned(root[entryIdx[p]], walkPos[p]))
    /\ [][\A p \in Procs :
            (pc[p] = "walk" /\ lastCall' = WalkCall("SkipDir"))
            => WalkContinues(p, SubtreeEnd(root[entryIdx[p]], walkPos[p]), 0)]_vars

\* alpha: a.go and sub/b.go are indexed in full, past .git and sub/vendor, and
\* vendor has just been pruned
C13_Witness ==
    /\ pc[Main] = "walk"
    /\ lastCall = WalkCall("SkipDir")
    /\ root[entryIdx[Main]][walkPos[Main]].name = "z.txt"
    /\ walkerCount[Main] = 3

\* ------------------------------------------------------------------------
\* Claims about the Repository Synchronizer (checked under SpecSync)
\* ------------------------------------------------------------------------
\* C14: with an empty organization or an empty repository list CloneRepos returns
\* ErrGitConfigRequired and does nothing else: no MkdirAll, no git process, no call
\* of cloneOrUpdateRepo.
C14_ConfigRequired ==
    (gitOrg = "" \/ gitRepos = <<>>) =>
        /\ spc \in {"call", "done"}
        /\ spc = "done" => syncErr = ErrGitConfigRequired
        /\ ~reposDirMade
        /\ spawned = 0
        /\ cmd = "none"
        /\ attempts = <<>>

C14_Witness ==
    /\ spc = "done"
    /\ gitOrg = "" /\ Len(gitRepos) = MaxRepos
    /\ syncErr = ErrGitConfigRequired

\* C15: once MkdirAll succeeded, cloneOrUpdateRepo is called for the configured
\* repositories one by one in configuration order, and CloneRepos returns only
\* after the last one, whatever the calls for the earlier ones returned.
C15_EveryRepoAttempted ==
    /\ Len(attempts) <= Len(gitRepos)
    /\ \A i \in DOMAIN attempts : attempts[i].repo = gitRepos[i]
    /\ (spc = "done" /\ reposDirMade) => Len(attempts) = Len(gitRepos)

C15_Witness ==
    /\ spc = "done"
    /\ Len(attempts) = 2
    /\ attempts[1].err.kind = "failed"
    /\ attempts[2].err = NilGitErr

\* C16 (as claimed): a clone, fetch or reset that fails after the caller's context
\* was cancelled while it ran returns an error that is a cancellation
\* (errors.Is(err, context.Canceled)).
C16_CancelledIsCancellation ==
    \A i \in DOMAIN attempts :
        (attempts[i].cancelledDuring /\ attempts[i].err # NilGitErr)
        => IsCanceled(attempts[i].err)

\* C17: a gitClone whose command failed with the deadline of its 5-minute context
\* exceeded returns the timeout error, one whose command exited non-zero with the
\* deadline not exceeded returns the clone-failed error with the command's output,
\* and the timeout error is returned in no other case.
C17_TimeoutOrCloneFailed ==
    \A i \in DOMAIN attempts :
        LET a == attempts[i] IN
        a.fn = "gitClone" =>
            /\ (a.result.waitErr # "nil" /\ a.result.ctxErr = "DeadlineExceeded")
               => (a.err.kind = "timeout" /\ a.err.after = cloneTimeout)
            /\ (a.result.waitErr = "ExitError" /\ a.result.ctxErr # "DeadlineExceeded")
               => (a.err.kind = "failed" /\ a.err.output /\ a.err.cause = "ExitError")
            /\ a.err.kind = "timeout" => a.result.ctxErr = "DeadlineExceeded"

C17_Witness ==
    /\ Len(attempts) = 2
    /\ attempts[1].fn = "gitClone" /\ attempts[1].err.kind = "timeout"
    /\ attempts[2].fn = "gitClone" /\ attempts[2].err.kind = "failed"
    /\ attempts[2].result.waitErr = "ExitError"

\* ------------------------------------------------------------------------
\* Claims about the periodic loop (checked under Spec)
\* ------------------------------------------------------------------------
\* C18: a tick of RunIndexingLoop begins with CloneRepos exactly when organization
\* and repositories are configured; IndexAllRepos is called when CloneRepos has
\* returned, whatever it returned, and not before; and the goroutine goes from a
\* tick back to its select, never out of the loop.
C18_LoopSurvivesErrors ==
    /\ [][(pc[Loop] = "select" /\ pc'[Loop] \notin {"select", "stopped"})
          => pc'[Loop] = (IF gitConfigured THEN "clone" ELSE "lock")]_vars
    /\ [][(pc[Loop] = "clone" /\ pc'[Loop] # "clone")
          => (pc'[Loop] = "lock" /\ lastCall'.fn = "CloneRepos")]_vars
    /\ [][(pc[Loop] # "lock" /\ pc'[Loop] = "lock")
          => (pc[Loop] = "clone" \/ (~gitConfigured /\ pc[Loop] = "select"))]_vars
    /\ [][(pc[Loop] \in InPass /\ pc'[Loop] \notin InPass)
             => pc'[Loop] = "select"]_vars
    /\ [][(pc[Loop] \in InCall \cup {"clone"}) => pc'[Loop] # "stopped"]_vars

\* the loop calls IndexAllRepos although CloneRepos returned an error
C18_Witness ==
    /\ pc[Loop] = "lock"
    /\ lastCall = CloneCall(MkdirErr)

\* C19 (as claimed): RunIndexingLoop returns only when its context is cancelled,
\* and once the context is cancelled the select starts no further tick.
C19_NoTickAfterCancel ==
    /\ [](pc[Loop] = "stopped" => appCtxDone)
    /\ [][(appCtxDone /\ pc[Loop] = "select")
          => pc'[Loop] \in {"select", "stopped"}]_vars

\* ------------------------------------------------------------------------
\* Claims about Search (checked under SpecSearch)
\* ------------------------------------------------------------------------
\* C20 (as claimed): the results come with the documents flagged named-returns
\* first, then those flagged error-handling, and among documents with equal flags
\* the higher relevance score first.
C20_FlagsThenRelevance ==
    \A i, j \in DOMAIN results :
        i < j => ~SortsBefore(results[j], results[i],
                              <<"has_namedreturns", "has_error_handling", "_score">>)

\* ------------------------------------------------------------------------
\* C21: the query Search sends asks for 10 results when the limit it was given is
\* zero or negative, and for exactly the given limit when that is positive.
\* ------------------------------------------------------------------------
C21_LimitDefault ==
    searchSent # NoQuery =>
        searchSent.size = IF limit <= 0 THEN 10 ELSE limit

\* a query sent for a negative limit, and asking for 10
C21_Witness ==
    /\ limit < 0
    /\ searchSent # NoQuery
    /\ searchSent.size = 10

\* ------------------------------------------------------------------------
\* C22: whatever limit a search request carries, the query sent to the store asks
\* for at most 100 results.
\* ------------------------------------------------------------------------
C22_LimitAtMost100 ==
    searchSent # NoQuery => searchSent.size <= maxLimit

\* ------------------------------------------------------------------------
\* C23: every document that a walk persists has a non-empty repository name and a
\* non-empty file path, and the file path is the path of a file relative to the
\* directory of that repository: it holds neither the local repository root nor
\* the repository directory.
\* ------------------------------------------------------------------------
C23_PathRelativeToRepo ==
    \A j \in DOMAIN lastCall.subs :
        LET doc == lastCall.subs[j].doc IN
        lastCall.subs[j].ok =>
            /\ doc.repo # ""
            /\ doc.file_path # <<>>
            /\ \E t \in DOMAIN root :
                 /\ root[t][1].name = doc.repo
                 /\ \E i \in DOMAIN root[t] : doc.file_path = RelPath(root[t], i)

\* ------------------------------------------------------------------------
\* C24: a CodeDocument written as JSON and read back is equal to the original in
\* every field (the time as an instant), a list of several imports comes back with
\* the same elements in the same order, and an import list that is present and
\* empty comes back present and empty, not nil.
\* ------------------------------------------------------------------------
C24_RoundTrip ==
    decoded # NoDoc =>
        /\ \A k \in JSONKeys \ {"indexed_at"} : decoded[k] = document[k]
        /\ TimeEqual(decoded.indexed_at, document.indexed_at)
        /\ document.imports = Slice(<<>>) =>
              (~decoded.imports.nil /\ decoded.imports.elems = <<>>)

\* an empty, non-nil import list has made the round trip
C24_Witness ==
    /\ decoded # NoDoc
    /\ document.imports = Slice(<<>>)
    /\ decoded.imports = Slice(<<>>)

\* ------------------------------------------------------------------------
\* C25: the has_namedreturns flag of an extracted document is true exactly when
\* some field of the declaration's result list has a name; it is false when the
\* declaration has no result list and when no result is named.
\* ------------------------------------------------------------------------
C25_NamedReturns ==
    (parsed # NoDecl /\ document # NoDoc) =>
        LET res == parsed.decl.results IN
        /\ document.has_namedreturns =
              (~res.nil /\ \E i \in DOMAIN res.list : res.list[i].names >= 1)
        /\ res.nil => ~document.has_namedreturns
        /\ (\A i \in DOMAIN res.list : res.list[i].names = 0)
              => ~document.has_namedreturns

\* an unnamed result followed by a named one gives true
C25_Witness ==
    /\ parsed # NoDecl
    /\ document # NoDoc
    /\ parsed.decl.results = FieldList(<<Field(0), Field(1)>>)
    /\ document.has_namedreturns

\* ------------------------------------------------------------------------
\* C26: the index never loses a document, and an IndexDocument call that returned
\* nil has added exactly one document to it (so that n passes over F functions
\* leave n*F documents).
\* ------------------------------------------------------------------------
C26_OneDocumentPerSuccess ==
    /\ storeDocs >= docsBefore
    /\ (op = "index" /\ cpc = "returned" /\ callErr = NilErr)
          => storeDocs = docsBefore + 1

\* ------------------------------------------------------------------------
\* C27: whatever the answers, doRequestWithRetry makes at most maxRetries + 1 = 4
\* attempts, the second, third and fourth after sleeps of 500, 1000 and 2000
\* milliseconds, has returned once the fourth was answered, and always returns.
\* ------------------------------------------------------------------------
C27_AttemptsBounded ==
    /\ Len(answers) <= 4
    /\ \A k \in ReqKinds \ {"HEAD"} : sent[k] <= 4
    /\ Len(sleeps) <= 3
    /\ \A i \in DOMAIN sleeps : sleeps[i] = <<500, 1000, 2000>>[i]
    /\ Len(answers) \in {Len(sleeps), Len(sleeps) + 1}
    /\ cpc = "attempt" => Len(sleeps) = Len(answers)
    /\ Len(answers) = 4 => RetryReturned

C27_RetryBounded ==
    /\ []C27_AttemptsBounded
    /\ (cpc = "attempt") ~> RetryReturned

\* four attempts, all failed, three sleeps, and the loop is over
C27_Witness ==
    /\ cpc = "retdone"
    /\ Len(answers) = 4
    /\ sleeps = <<500, 1000, 2000>>
    /\ \A i \in DOMAIN answers : answers[i] \in FaultStatuses

\* ------------------------------------------------------------------------
\* C28: EnsureIndex sends a create request only after its existence check was
\* answered 404; when the check met a transport error or a status other than 200
\* and 404 it returns an error without a create request, and when the check was
\* answered 200 it returns nil without a create request.
\* ------------------------------------------------------------------------
C28_CreateOnlyIfAbsent ==
    op = "ensure" =>
        /\ sent["PUT"] > 0 => headAns = 404
        /\ (headAns # NotSent /\ headAns \notin {200, 404})
              => (cpc = "returned" /\ callErr # NilErr /\ sent["PUT"] = 0)
        /\ headAns = 200
              => (cpc = "returned" /\ callErr = NilErr /\ sent["PUT"] = 0)

\* a check answered 503: EnsureIndex returned an error and created nothing
C28_Witness ==
    /\ op = "ensure"
    /\ cpc = "returned"
    /\ headAns = 503
    /\ callErr # NilErr
    /\ sent["PUT"] = 0
    /\ storeMapping = "none"

\* ------------------------------------------------------------------------
\* C29: cloneOrUpdateRepo runs "clone" exactly when the repository has no .git
\* under the repository root, and "fetch" otherwise; "reset" runs only after a
\* fetch that returned no error; fetch and reset together get 120 seconds (the
\* reset, unless the caller cancelled, meets the deadline exactly when the two need
\* more than that); and the error of a gitFetch names the reset exactly when the
\* fetch had succeeded.
\* ------------------------------------------------------------------------
C29_FetchThenReset ==
    /\ spc = "run" =>
          /\ (cmd = "clone") = (gitRepos[repoIdx] \notin haveGit)
          /\ (cmd \in {"fetch", "reset"}) = (gitRepos[repoIdx] \in haveGit)
          /\ cmd \in {"clone", "fetch"} => ran = <<>>
          /\ cmd = "reset" =>
                (/\ Len(ran) = 1
                 /\ ran[1].cmd = "fetch"
                 /\ ran[1].result.waitErr = "nil")
    /\ Len(ran) = 2 =>
          /\ ran[1].cmd = "fetch" /\ ran[2].cmd = "reset"
          /\ ran[1].result.waitErr = "nil"
          /\ ran[1].took + ran[2].took <= 120
          /\ ~gitCtxDone =>
                ((ran[2].result.ctxErr = "DeadlineExceeded")
                    = (ran[1].need + ran[2].need > 120))
    /\ (spc \in {"loop", "done"} /\ ran # <<>>) =>
          LET a == attempts[Len(attempts)] IN
          (a.fn = "gitFetch" /\ a.err # NilGitErr) =>
             /\ (a.err.cmd = "reset") = (Len(ran) = 2)
             /\ (a.err.cmd = "fetch") = (Len(ran) = 1)

\* a fetch of 50 seconds succeeded, and the reset, which needs 100, was stopped by
\* the deadline the two share
C29_Witness ==
    /\ spc = "loop"
    /\ Len(ran) = 2
    /\ ran[1].need = 50
    /\ ran[2].need = 100
    /\ ran[2].took = 70
    /\ attempts[Len(attempts)].err.kind = "timeout"
    /\ attempts[Len(attempts)].err.cmd = "reset"

\* ------------------------------------------------------------------------
\* C30: indexing one file submits one document for each of its function
\* declarations, plain functions and methods alike, in the order of declaration,
\* two declarations of the same name giving two documents; a submission that fails
\* does not keep the later ones from being made; and the count of the file is the
\* number of submissions that succeeded.
\* ------------------------------------------------------------------------
C30_EveryDeclarationInOrder ==
    [][\A p \in Procs :
          (pc[p] = "walk" /\ lastCall'.fn = "walk" /\ lastCall'.res = "indexed")
          => LET n == root[entryIdx[p]][walkPos[p]]
                 decls == SelectSeq(Inspect(n), IsFuncDecl)
                 subs == lastCall'.subs
                 succeeded == Cardinality({j \in DOMAIN subs : subs[j].ok})
             IN /\ Len(subs) = Len(decls)
                /\ \A j \in DOMAIN subs :
                      /\ subs[j].doc.function_name = decls[j].name
                      /\ subs[j].doc.code = decls[j].src
                /\ WalkContinues(p, walkPos[p] + 1, succeeded)
                /\ persisted'[p] = persisted[p] + succeeded]_vars

\* a.go of alpha: the function Run and the method Run were both submitted, the
\* first refused and the second stored
C30_Witness ==
    /\ lastCall.fn = "walk"
    /\ lastCall.res = "indexed"
    /\ Len(lastCall.subs) = 2
    /\ lastCall.subs[1].doc.function_name = <<"R", "u", "n">>
    /\ lastCall.subs[2].doc.function_name = <<"R", "u", "n">>
    /\ lastCall.subs[1].doc.code # lastCall.subs[2].doc.code
    /\ ~lastCall.subs[1].ok
    /\ lastCall.subs[2].ok
    /\ walkerCount[Main] = 1

\* ------------------------------------------------------------------------
\* Claims about the metrics of the client (checked under SpecStore)
\* ------------------------------------------------------------------------
\* the step in which a call that went through doRequestWithRetry returns
CallReturns(o) == op = o /\ cpc = "retdone" /\ cpc' = "returned"

\* the increments of ESRequests in this step, over the labels of operation o
Counted(o, status) == esRequests'[<<o, status>>] - esRequests[<<o, status>>]

\* C31 (as claimed): every IndexDocument or Search call that sent a request counts
\* exactly once, when it returns and however many attempts it made, under
\* (operation, success) or (operation, error), under success only when it returns
\* nil; no other step of a call changes the counters (they are counted anew from the
\* beginning of each call).
C31_OutcomeCountedOnce ==
    [][/\ \A o \in {"index", "search"} :
            CallReturns(o) =>
              /\ sent[req] >= 1
              /\ Counted(o, "success") + Counted(o, "error") = 1
              /\ Counted(o, "success") \in {0, 1}
              /\ (Counted(o, "success") = 1 => callErr' = NilErr)
              /\ \A l \in RequestLabels : l[1] # o => esRequests'[l] = esRequests[l]
       /\ (~(CallReturns("index") \/ CallReturns("search")) =>
             \/ esRequests' = esRequests
             \/ cpc \in {"idle", "returned"} /\ esRequests' = NoRequests)
      ]_vars

\* C37 (as claimed): an attempt made after an attempt that was answered with a 5xx
\* response has the complete serialized body to send, as the first attempt had.
C37_RetryCarriesPayload ==
    (Len(answers) >= 2 /\ IsServerError(answers[Len(answers) - 1]))
       => payload # "empty"

\* ------------------------------------------------------------------------
\* Claims about IndexAllRepos (checked under SpecIndexMode)
\* ------------------------------------------------------------------------
\* the entry of the loop of p is a repository: a directory with a .git in it
AtRepository(p) ==
    /\ entryIdx[p] \in DOMAIN root
    /\ EntryIsDir(root[entryIdx[p]])
    /\ HasGit(root[entryIdx[p]])

\* the call of IndexAllRepos by p returns in this step
PassReturns(p) == pc[p] \in InPass /\ pc'[p] \notin InPass

\* C32: a walk that ends, with an error or without one, leaves IndexAllRepos in
\* its loop at the next entry; the loop passes a repository only by walking it;
\* the call returns nil once the loop is through all entries, and a non-nil error
\* only where os.ReadDir of the repository root failed.
C32_RepoFailureContained ==
    [][\A p \in Procs :
         /\ (pc[p] = "walk" /\ pc'[p] # "walk")
               => /\ pc'[p] = "entries"
                  /\ entryIdx'[p] = entryIdx[p] + 1
                  /\ p \in mu'
                  /\ ~lastRun'.returned
         /\ (pc[p] = "entries" /\ AtRepository(p)) => pc'[p] \in {"entries", "walk"}
         /\ (pc[p] = "entries" /\ AtRepository(p) /\ pc'[p] = "entries")
               => entryIdx'[p] = entryIdx[p]
         /\ PassReturns(p)
               => /\ lastRun'.returned
                  /\ IF lastRun'.err = NilErr
                     THEN pc[p] = "entries" /\ entryIdx[p] = Len(root) + 1
                     ELSE pc[p] = "readdir" /\ lastRun'.err = ReadDirErr
      ]_vars

\* the walk of alpha persisted documents and was given up with an error (nothing
\* of it is in the total), and the walk of beta, the next repository, is under way
C32_Witness ==
    /\ pc[Main] = "walk"
    /\ root[entryIdx[Main]] = TreeBeta
    /\ walkPos[Main] > 1
    /\ persisted[Main] > 0
    /\ totalCount[Main] = 0

\* the top-level entry is a directory that holds version-control metadata
HoldsMetadata(tree) ==
    /\ tree[1].dir
    /\ \E i \in 2..Len(tree) : tree[i].depth = 1 /\ tree[i].name = ".git"

C35_TotalIsPersisted ==
    lastRun.returned => lastRun.count = lastRun.persisted

\* C36 (as claimed): during a pass ReposIndexed goes up by one exactly when the
\* walk of a repository ends without an error: not when a walk ends with an
\* error, and not when the loop passes an entry that is no repository.
C36_ReposIndexedCountsWalks ==
    [][\A p \in Procs :
         (pc[p] \in InPass /\ pc'[p] \in InPass)
           => reposIndexed'[p] =
                reposIndexed[p] +
                  (IF pc[p] = "walk" /\ pc'[p] = "entries" /\ lastCall'.res # "pathErr"
                   THEN 1 ELSE 0)
      ]_vars

\* C38 (as claimed, checked under Spec): once the context of a pass of IndexAllRepos
\* is cancelled the pass persists no further document, and when it returns from
\* its loop it returns the cancellation, not nil with the count so far.
C38_CancelledPassReportsIt ==
    [][\A p \in Procs :
         (pc[p] \in InPass /\ CtxDone(p))
           => /\ persisted'[p] <= persisted[p]
              /\ (pc[p] = "entries" /\ PassReturns(p)) => lastRun'.err = CanceledErr
      ]_vars

\* C39 (checked under Spec): a call of IndexAllRepos that waits for the mutex stays
\* there whether or not its context is cancelled, and goes on, into its pass, only
\* from a state in which no goroutine holds the mutex; so the periodic loop, once
\* it waits, neither returns nor stops before the holder has unlocked.
C39_LockWaitNotCancellable ==
    [][\A p \in Procs :
         pc[p] = "lock"
           => /\ pc'[p] \in {"lock", "readdir"}
              /\ (mu # {} => pc'[p] = "lock")
              /\ (pc'[p] = "readdir" => mu' = {p})
      ]_vars

\* shutdown is signalled, the loop waits for the mutex, and a reindex goroutine,
\* whose context is not main's, is in a walk
C39_Witness ==
    /\ appCtxDone
    /\ pc[Loop] = "lock"
    /\ CtxDone(Loop)
    /\ \E r \in Reindexers : pc[r] = "walk" /\ r \in mu /\ ~CtxDone(r)

\* ------------------------------------------------------------------------
\* Claims about the Synchronizer and the Walker together (checked under
\* SpecSyncDuringReindex)
\* ------------------------------------------------------------------------
\* a git command of CloneRepos that writes the working tree at path runs
Writing(path) ==
    /\ spc = "run"
    /\ cmd \in {"fetch", "reset"}
    /\ Join(ReposPath, <<gitRepos[repoIdx]>>) = path

\* filepath.Walk of the goroutine p is inside the tree at path
Reading(p, path) ==
    /\ pc[p] = "walk"
    /\ RepoPath(root[entryIdx[p]]) = path

\* C34 (as claimed): no fetch or reset of CloneRepos runs on a repository while a
\* walk of IndexAllRepos is inside that same repository.
C34_NoSyncDuringWalk ==
    \A p \in Procs : \A tree \in {root[i] : i \in DOMAIN root} :
        ~(Writing(RepoPath(tree)) /\ Reading(p, RepoPath(tree)))

\* ------------------------------------------------------------------------
\* Claims about the configuration (checked under SpecStart)
\* ------------------------------------------------------------------------
\* C40 (as claimed): with every INDEX_INTERVAL for which config.Load returns no
\* error, zero and negative durations among them, RunIndexingLoop starts its
\* ticker and the process does not crash.
C40_AcceptedIntervalIsSafe ==
    /\ boot = "fatal" => ~ParseDuration(getEnv(intervalStr, DefaultInterval)).ok
    /\ boot # "panic"

====
